---- MODULE Spec2Model ----
(***************************************************************************)
(* A model of the alerting core of Advanced_Dashboard: the in-memory       *)
(* AlertStore (fingerprint dedupe, lifecycle transitions, sequential ids), *)
(* the alert fingerprint of the alert engine, the way the HTTP layer       *)
(* drives the store, the AuditStore and the audit events the handlers      *)
(* write, the analysis engines (feature extraction, anomaly detection,    *)
(* forecast, recommendations, explanations, SLA risk, alert generation),   *)
(* each under a specification of its own, and the pipeline run_ai_analysis *)
(* that chains them.                                                       *)
(*                                                                         *)
(* Time is counted in minutes.  An ISO-8601 timestamp string of the stores *)
(* is modelled by its minute field, a two-character zero-padded string (a  *)
(* sequence of characters); every other field of the timestamp is the same *)
(* for all the times of the model.  The timestamps the engines parse are   *)
(* "HH:MM" sequences of characters.  The empty string is the empty         *)
(* sequence.                                                               *)
(***************************************************************************)
EXTENDS Integers, Sequences, FiniteSets, TLC

\* ------------------------------------------------------------------ bounds
MaxClock == 12
MaxSequence == 3
MaxOps == 3

\* ------------------------------------------------------- program constants
DedupeWindowMinutes == 10
DefaultMaxSize == 2000
MaxLimit == 500

AlertStatus == {"active", "acknowledged", "resolved"}

VARIABLES
    alerts,             \* AlertStore._alerts: the records, in dict insertion order
    fingerprint_index,  \* AlertStore._fingerprint_index: fingerprint -> id
    sequence,           \* AlertStore._sequence
    clock,              \* the value the injected time_provider returns
    issued,             \* history: the ids _new_id has returned, in order
    ops,                \* history: number of store operations performed
    streak,             \* history: per fingerprint, the upserts since it was absent
    last,               \* the last call made to the store and what it returned
    probe,              \* a fingerprint experiment: two entities and what came of them
    tasks,              \* the requests in flight: each handler's position and locals
    running,            \* the request the event loop is running, 0 for none
    max_size,           \* AuditStore._max_size
    audit_events,       \* AuditStore._events
    audit_sequence,     \* AuditStore._sequence
    appended,           \* history: the payloads append has stored, in order
    session,            \* one reader paging through list_events, and what it was given
    calc                \* a computation: the inputs drawn for it and what it returned

historyVars == <<issued, ops, streak, last>>
auditVars == <<max_size, audit_events, audit_sequence, appended, session>>
otherVars == <<probe, tasks, running, auditVars, calc>>
vars == <<alerts, fingerprint_index, sequence, clock, issued, ops, streak, last,
          probe, tasks, running, max_size, audit_events, audit_sequence, appended,
          session, calc>>

\* ------------------------------------------------------------ strings
Digits == <<"0", "1", "2", "3", "4", "5", "6", "7", "8", "9">>

DigitChar(d) == Digits[d + 1]

DigitValue(c) == (CHOOSE i \in 1..10 : Digits[i] = c) - 1

\* datetime.isoformat(): fixed-width, zero-padded fields
IsoFormat(t) == <<DigitChar((t \div 10) % 10), DigitChar(t % 10)>>

\* datetime.fromisoformat()
FromIsoFormat(s) == DigitValue(s[1]) * 10 + DigitValue(s[2])

\* Python's str comparison: lexicographic by character, a proper prefix is smaller
RECURSIVE StrLess(_, _)
StrLess(a, b) ==
    IF b = <<>> THEN FALSE
    ELSE IF a = <<>> THEN TRUE
    ELSE IF a[1] # b[1] THEN DigitValue(a[1]) < DigitValue(b[1])
    ELSE StrLess(Tail(a), Tail(b))

\* f"{n:06d}": decimal, left-padded with zeros to at least six characters
RECURSIVE ZeroPad(_, _)
ZeroPad(s, width) == IF Len(s) >= width THEN s ELSE ZeroPad("0" \o s, width)

\* ------------------------------------------------------------ dict helpers
EmptyDict == <<>>

DictSet(d, k, v) == [x \in DOMAIN d \cup {k} |-> IF x = k THEN v ELSE d[x]]

\* {**a, **b}: the entries of b win
DictMerge(a, b) == b @@ a

\* dict.get(k, default)
DictGet(d, k, default) == IF k \in DOMAIN d THEN d[k] ELSE default

\* the keys of _alerts
AlertIds(s) == {s[i].id : i \in DOMAIN s}

\* _alerts[alert_id], for a key that is present
AlertAt(s, alert_id) == s[CHOOSE i \in DOMAIN s : s[i].id = alert_id]

\* _alerts[model.id] = model: an existing key keeps its position, a new key is appended
AlertsSet(s, model) ==
    IF model.id \in AlertIds(s)
    THEN [i \in DOMAIN s |-> IF s[i].id = model.id THEN model ELSE s[i]]
    ELSE Append(s, model)

\* ------------------------------------------------------------ alert engine
RECURSIVE JoinPairs(_)
JoinPairs(pairs) ==
    IF pairs = <<>> THEN ""
    ELSE IF Len(pairs) = 1 THEN pairs[1][1] \o "=" \o pairs[1][2]
    ELSE pairs[1][1] \o "=" \o pairs[1][2] \o "|" \o JoinPairs(Tail(pairs))

\* str ordering of the entity keys of the model, smallest first
EntityKeys == <<"cluster", "node", "target">>

KeyRank(k) == CHOOSE i \in DOMAIN EntityKeys : EntityKeys[i] = k

\* sorted(entity.keys()), each key with its value: insertion sort on the key
RECURSIVE InsertSorted(_, _)
InsertSorted(pair, sorted) ==
    IF sorted = <<>> THEN <<pair>>
    ELSE IF KeyRank(pair[1]) <= KeyRank(sorted[1][1]) THEN <<pair>> \o sorted
    ELSE <<sorted[1]>> \o InsertSorted(pair, Tail(sorted))

\* variant: the keys taken in insertion order
UnsortedItems(entity) == entity

RECURSIVE SortedItems(_)
SortedItems(entity) ==
    IF entity = <<>> THEN <<>>
    ELSE InsertSorted(entity[1], SortedItems(Tail(entity)))

\* engine._fingerprint; an entity is its (key, value) pairs in insertion order
_fingerprint(alert_type, entity, mode) ==
    LET ordered == IF entity # <<>> THEN JoinPairs(SortedItems(entity))
                   ELSE "entity=cluster"
    IN alert_type \o "|" \o ordered \o "|mode=" \o mode

\* ------------------------------------------------------------ alert store
\* AlertStore._new_id: the id the next call returns
_new_id(seq) == "alert-" \o ZeroPad(ToString(seq + 1), 6)

\* the string s, or the fallback when s is empty (Python's `s or fallback`)
OrElse(s, fallback) == IF s = <<>> THEN fallback ELSE s

\* upsert_alert, lines 29-34: the record the alert merges into, if any
Existing(s, index, alert_fp) ==
    IF /\ alert_fp \in DOMAIN index
       /\ index[alert_fp] # ""
       /\ index[alert_fp] \in AlertIds(s)
    THEN {AlertAt(s, index[alert_fp])}
    ELSE {}

\* variant: the boundary of the window taken as outside it
WithinWindowStrict(now, existing) ==
    now - FromIsoFormat(existing.updated_at) < DedupeWindowMinutes

WithinWindow(now, existing) ==
    now - FromIsoFormat(existing.updated_at) <= DedupeWindowMinutes

\* variant: the merge also takes the status and the meta of the incoming alert
MergedTakingTheIncoming(existing, alert, now) ==
    LET meta == DictSet(DictSet(DictMerge(existing.meta, alert.meta), "occurrences",
                                DictGet(existing.meta, "occurrences", 1) + 1),
                        "last_message", alert.message)
    IN [existing EXCEPT !.message = alert.message,
                        !.status = alert.status,
                        !.updated_at = IsoFormat(now),
                        !.meta = meta]

\* upsert_alert, lines 35-42
Merged(existing, alert, now) ==
    LET meta == DictSet(DictSet(existing.meta, "occurrences",
                                DictGet(existing.meta, "occurrences", 1) + 1),
                        "last_message", alert.message)
    IN [existing EXCEPT !.message = alert.message,
                        !.updated_at = IsoFormat(now),
                        !.meta = meta]

\* upsert_alert, lines 44-60
NewModel(alert, new_id, now) ==
    [id          |-> IF alert.id # "" THEN alert.id ELSE new_id,
     type        |-> alert.type,
     severity    |-> alert.severity,
     status      |-> alert.status,
     title       |-> alert.title,
     message     |-> alert.message,
     source      |-> alert.source,
     created_at  |-> OrElse(alert.created_at, IsoFormat(now)),
     updated_at  |-> OrElse(alert.updated_at, IsoFormat(now)),
     fingerprint |-> alert.fingerprint,
     entity      |-> alert.entity,
     explanation |-> alert.explanation,
     meta        |-> DictMerge([occurrences |-> 1], alert.meta)]

\* AlertStore.upsert_alert: the store after the call and the alert it returns
upsert_alert(s, index, seq, now, alert) ==
    LET found == Existing(s, index, alert.fingerprint)
        existing == CHOOSE e \in found : TRUE
    IN IF found # {} /\ WithinWindow(now, existing)
       THEN LET m == Merged(existing, alert, now)
            IN [alerts |-> AlertsSet(s, m), index |-> index, seq |-> seq,
                issued |-> <<>>, merged |-> TRUE, ret |-> m]
       ELSE LET fresh == alert.id = ""
                model == NewModel(alert, _new_id(seq), now)
            IN [alerts |-> AlertsSet(s, model),
                index  |-> DictSet(index, alert.fingerprint, model.id),
                seq    |-> IF fresh THEN seq + 1 ELSE seq,
                issued |-> IF fresh THEN <<model.id>> ELSE <<>>,
                merged |-> FALSE,
                ret    |-> model]

\* AlertStore.get_alert: Optional[Alert] as a set of at most one alert
get_alert(s, alert_id) ==
    IF alert_id \in AlertIds(s) THEN {AlertAt(s, alert_id)} ELSE {}

\* variant: an unknown id is passed over in silence
acknowledge_silent(s, alert_id, actor, now) ==
    IF alert_id \notin AlertIds(s)
    THEN [raised |-> "", alerts |-> s]
    ELSE LET alert == AlertAt(s, alert_id)
             updated == [alert EXCEPT !.status = "acknowledged",
                                      !.updated_at = IsoFormat(now),
                                      !.meta = DictSet(alert.meta, "ack_by", actor)]
         IN [raised |-> "", alerts |-> AlertsSet(s, updated)]

\* AlertStore.acknowledge: raises KeyError on an unknown id
acknowledge(s, alert_id, actor, now) ==
    IF get_alert(s, alert_id) = {}
    THEN [raised |-> "KeyError", alerts |-> s]
    ELSE LET alert == AlertAt(s, alert_id)
             updated == [alert EXCEPT !.status = "acknowledged",
                                      !.updated_at = IsoFormat(now),
                                      !.meta = DictSet(alert.meta, "ack_by", actor)]
         IN [raised |-> "", alerts |-> AlertsSet(s, updated)]

\* variant: the meta is built anew instead of copied
resolve_fresh_meta(s, alert_id, actor, now) ==
    IF alert_id \notin AlertIds(s)
    THEN [raised |-> "KeyError", alerts |-> s]
    ELSE LET alert == AlertAt(s, alert_id)
             updated == [alert EXCEPT !.status = "resolved",
                                      !.updated_at = IsoFormat(now),
                                      !.meta = [resolved_by |-> actor]]
         IN [raised |-> "", alerts |-> AlertsSet(s, updated)]

\* AlertStore.resolve: raises KeyError on an unknown id
resolve(s, alert_id, actor, now) ==
    IF get_alert(s, alert_id) = {}
    THEN [raised |-> "KeyError", alerts |-> s]
    ELSE LET alert == AlertAt(s, alert_id)
             updated == [alert EXCEPT !.status = "resolved",
                                      !.updated_at = IsoFormat(now),
                                      !.meta = DictSet(alert.meta, "resolved_by", actor)]
         IN [raised |-> "", alerts |-> AlertsSet(s, updated)]

\* variant: clearing also restarts the id sequence
clear_all_restarting(s, index, seq) ==
    [ret |-> Len(s), alerts |-> <<>>, index |-> EmptyDict, seq |-> 0]

\* AlertStore.clear_all: _sequence is left as it is
clear_all(s, index, seq) ==
    [ret |-> Len(s), alerts |-> <<>>, index |-> EmptyDict, seq |-> seq]

\* variant: the sort without reverse=True
RECURSIVE InsertAscending(_, _)
InsertAscending(item, placed) ==
    IF placed = <<>> THEN <<item>>
    ELSE IF StrLess(item.updated_at, placed[1].updated_at) THEN <<item>> \o placed
    ELSE <<placed[1]>> \o InsertAscending(item, Tail(placed))

\* list.sort(key=updated_at, reverse=True) is stable: an item goes after every
\* item already placed whose key is not smaller than its own
RECURSIVE InsertDescending(_, _)
InsertDescending(item, placed) ==
    IF placed = <<>> THEN <<item>>
    ELSE IF StrLess(placed[1].updated_at, item.updated_at) THEN <<item>> \o placed
    ELSE <<placed[1]>> \o InsertDescending(item, Tail(placed))

RECURSIVE SortDescending(_, _)
SortDescending(items, placed) ==
    IF items = <<>> THEN placed
    ELSE SortDescending(Tail(items), InsertDescending(items[1], placed))

\* AlertStore.list_alerts; status "" stands for None (both skip the filter)
list_alerts(s, status) ==
    LET kept == IF status # "" THEN SelectSeq(s, LAMBDA item : item.status = status)
                ELSE s
    IN SortDescending(kept, <<>>)

\* ------------------------------------------------------------ inputs
InputIds == {"", "ext-1"}
InputTypes == {"cpu_spike", "sla_risk"}
Messages == {"m1", "m2"}
Actors == {"ops@example.com", "admin@example.com"}
TickSteps == {10, 11}
ClusterEntity == <<(<<"cluster", "k8s-openstack">>)>>

\* what a caller fills in besides id, type and fingerprint: an alert as the engine
\* builds it but unstamped, one stamped by its caller at time 0, and one that
\* comes with a status and a meta of its own
InputVariants ==
    {[status |-> "active", message |-> "m1", created_at |-> <<>>,
      updated_at |-> <<>>, meta |-> EmptyDict],
     [status |-> "active", message |-> "m2", created_at |-> IsoFormat(0),
      updated_at |-> IsoFormat(0), meta |-> EmptyDict],
     [status |-> "resolved", message |-> "m2", created_at |-> <<>>,
      updated_at |-> <<>>, meta |-> [occurrences |-> 3]]}

\* the Alert models a caller may hand to upsert_alert
InputAlerts ==
    {[id          |-> i,
      type        |-> t,
      severity    |-> "critical",
      status      |-> v.status,
      title       |-> "title",
      message     |-> v.message,
      source      |-> "ai",
      created_at  |-> v.created_at,
      updated_at  |-> v.updated_at,
      fingerprint |-> _fingerprint(t, ClusterEntity, "demo"),
      entity      |-> ClusterEntity,
      explanation |-> "None",
      meta        |-> v.meta] :
        i \in InputIds, t \in InputTypes, v \in InputVariants}

\* the ids a request may name: those the store holds and one it never holds
RequestIds == AlertIds(alerts) \cup {"alert-missing"}

NoCall == [op |-> "none"]

\* ------------------------------------------------------------ the store's life
InitStore ==
    /\ alerts = <<>>
    /\ fingerprint_index = EmptyDict
    /\ sequence = 0
    /\ clock = 0
    /\ issued = <<>>
    /\ ops = 0
    /\ streak = EmptyDict
    /\ last = NoCall

\* AUDIT_STORE = AuditStore(), before any request
InitAuditStore ==
    /\ max_size = DefaultMaxSize
    /\ audit_events = <<>>
    /\ audit_sequence = 0
    /\ appended = <<>>
    /\ session = NoCall

Init ==
    /\ InitStore
    /\ InitAuditStore
    /\ probe = NoCall
    /\ tasks = <<>>
    /\ running = 0
    /\ calc = NoCall

\* the injected clock moves on
Tick(d) ==
    /\ clock + d <= MaxClock
    /\ clock' = clock + d
    /\ UNCHANGED <<alerts, fingerprint_index, sequence, issued, ops, streak, last, otherVars>>

\* history: the upserts of a fingerprint counted from the one that found the store
\* without it, n = 0 once an upsert of it has started a further record
StreakAfter(alert, r) ==
    LET fp == alert.fingerprint
    IN IF r.merged
       THEN [streak[fp] EXCEPT !.n = IF @ = 0 THEN 0 ELSE @ + 1]
       ELSE IF fp \in DOMAIN fingerprint_index
            THEN [n |-> 0, id |-> r.ret.id]
            ELSE [n |-> 1, id |-> r.ret.id]

\* store.upsert_alert(alert), as it acts on the store and on the history
StoreUpsert(alert) ==
    /\ ops < MaxOps
    /\ LET r == upsert_alert(alerts, fingerprint_index, sequence, clock, alert)
       IN /\ r.seq <= MaxSequence
          /\ alerts' = r.alerts
          /\ fingerprint_index' = r.index
          /\ sequence' = r.seq
          /\ issued' = issued \o r.issued
          /\ streak' = DictSet(streak, alert.fingerprint, StreakAfter(alert, r))
          /\ last' = [op |-> "upsert", alert |-> alert, merged |-> r.merged,
                      ret |-> r.ret]
    /\ ops' = ops + 1
    /\ UNCHANGED clock

\* a caller upserts an alert
Upsert(alert) == StoreUpsert(alert) /\ UNCHANGED otherVars

\* The three requests below are taken for what they do to the AlertStore and for
\* their response; the audit events they write do not reach the AlertStore and are
\* followed in SpecHandlers.
\* POST /api/alerts/{alert_id}/ack
AcknowledgeAlert(alert_id, actor) ==
    /\ ops < MaxOps
    /\ LET r == acknowledge(alerts, alert_id, actor, clock)
       IN /\ alerts' = r.alerts
          /\ last' = [op |-> "acknowledge", id |-> alert_id, actor |-> actor,
                      raised |-> r.raised,
                      http |-> IF r.raised = "KeyError" THEN 404 ELSE 200]
    /\ ops' = ops + 1
    /\ UNCHANGED <<fingerprint_index, sequence, clock, issued, streak, otherVars>>

\* POST /api/alerts/{alert_id}/resolve
ResolveAlert(alert_id, actor) ==
    /\ ops < MaxOps
    /\ LET r == resolve(alerts, alert_id, actor, clock)
       IN /\ alerts' = r.alerts
          /\ last' = [op |-> "resolve", id |-> alert_id, actor |-> actor,
                      raised |-> r.raised,
                      http |-> IF r.raised = "KeyError" THEN 404 ELSE 200]
    /\ ops' = ops + 1
    /\ UNCHANGED <<fingerprint_index, sequence, clock, issued, streak, otherVars>>

\* POST /api/alerts/clear
ClearAlerts ==
    /\ ops < MaxOps
    /\ LET r == clear_all(alerts, fingerprint_index, sequence)
       IN /\ alerts' = r.alerts
          /\ fingerprint_index' = r.index
          /\ sequence' = r.seq
          /\ last' = [op |-> "clear", ret |-> r.ret,
                      cleared |-> DOMAIN fingerprint_index]
    /\ streak' = EmptyDict
    /\ ops' = ops + 1
    /\ UNCHANGED <<clock, issued, otherVars>>

Next ==
    \/ \E d \in TickSteps : Tick(d)
    \/ \E alert \in InputAlerts : Upsert(alert)
    \/ \E alert_id \in RequestIds, actor \in Actors : AcknowledgeAlert(alert_id, actor)
    \/ \E alert_id \in RequestIds, actor \in Actors : ResolveAlert(alert_id, actor)
    \/ ClearAlerts

Spec == Init /\ [][Next]_vars

\* ------------------------------------------------------------ the fingerprint
\* An experiment on engine._fingerprint: two entities are fingerprinted for the same
\* alert type and mode, and the two alerts the engine builds from them are upserted.
EntityValues == {"k8s-openstack", "worker1"}

\* the dicts over the given keys, each as its items in one insertion order
RECURSIVE EntitiesOver(_)
EntitiesOver(keys) ==
    IF keys = {} THEN {<<>>}
    ELSE UNION {{<<(<<k, v>>)>> \o rest : v \in EntityValues,
                                         rest \in EntitiesOver(keys \ {k})} : k \in keys}

Entities == UNION {EntitiesOver(keys) : keys \in SUBSET {EntityKeys[i] : i \in DOMAIN EntityKeys}}

ProbeModes == {"demo", "prometheus"}

\* generate_alerts, lines 38-52: the alert the engine builds for an anomaly
EngineAlert(alert_type, entity, mode, now) ==
    [id          |-> "",
     type        |-> alert_type,
     severity    |-> "critical",
     status      |-> "active",
     title       |-> "title",
     message     |-> "m1",
     source      |-> "ai",
     created_at  |-> IsoFormat(now),
     updated_at  |-> IsoFormat(now),
     fingerprint |-> _fingerprint(alert_type, entity, mode),
     entity      |-> entity,
     explanation |-> "None",
     meta        |-> [confidence |-> "0.7"]]

InitProbe ==
    /\ InitStore
    /\ probe \in {[op |-> "built", type |-> "cpu_spike", a |-> a, b |-> b, mode |-> m,
                    fp_a |-> "", fp_b |-> ""] :
                      a \in Entities, b \in Entities, m \in ProbeModes}
    /\ tasks = <<>>
    /\ running = 0
    /\ InitAuditStore
    /\ calc = NoCall

FingerprintBoth ==
    /\ probe.op = "built"
    /\ probe' = [probe EXCEPT !.op = "fingerprinted",
                              !.fp_a = _fingerprint(probe.type, probe.a, probe.mode),
                              !.fp_b = _fingerprint(probe.type, probe.b, probe.mode)]
    /\ UNCHANGED <<alerts, fingerprint_index, sequence, clock, historyVars, tasks, running, auditVars, calc>>

UpsertFirst ==
    /\ probe.op = "fingerprinted"
    /\ StoreUpsert(EngineAlert(probe.type, probe.a, probe.mode, clock))
    /\ probe' = [probe EXCEPT !.op = "first stored"]
    /\ UNCHANGED <<tasks, running, auditVars, calc>>

UpsertSecond ==
    /\ probe.op = "first stored"
    /\ StoreUpsert(EngineAlert(probe.type, probe.b, probe.mode, clock))
    /\ probe' = [probe EXCEPT !.op = "both stored"]
    /\ UNCHANGED <<tasks, running, auditVars, calc>>

NextProbe == FingerprintBoth \/ UpsertFirst \/ UpsertSecond

SpecFingerprint == InitProbe /\ [][NextProbe]_vars

\* ------------------------------------------------------------ the event loop
\* Every endpoint is a coroutine run by one event loop: a handler keeps the loop
\* from its first statement to its return unless it awaits.  A request's handler
\* runs the analysis, whose generate_alerts upserts each generated alert; the
\* upsert is taken statement by statement.
NumRequests == 2

Requests == 1..NumRequests

\* the alert types one run of generate_alerts may upsert, in its order
GeneratedTypes == {<<"cpu_spike">>, <<"sla_risk">>, <<"cpu_spike", "sla_risk">>}

\* variant: the handler awaits inside _new_id, between reading and writing _sequence
AwaitsInsideNewId(pc) == pc = "new_id_write"

\* the statements at which a handler awaits: none on the way through
\* run_ai_analysis, generate_alerts and upsert_alert
Awaits(pc) == FALSE

InitLoop ==
    /\ InitStore
    /\ probe = NoCall
    /\ tasks \in [Requests -> {[pc |-> "pending", todo |-> g, now |-> 0,
                                 existing_id |-> "", read_sequence |-> 0,
                                 model_id |-> "", returned |-> <<>>] :
                                   g \in GeneratedTypes}]
    /\ running = 0
    /\ InitAuditStore
    /\ calc = NoCall

\* the loop may give the next statement to request t
MayRun(t) == running \in {0, t} /\ tasks[t].pc # "done"

\* the loop after request t has moved to pc
Yield(t, pc) == running' = IF pc = "done" \/ Awaits(pc) THEN 0 ELSE t

TaskAlert(t) == EngineAlert(tasks[t].todo[1], ClusterEntity, "demo", tasks[t].now)

\* the handler starts: generate_alerts takes now_iso and turns to its first alert
StartHandler(t) ==
    /\ MayRun(t)
    /\ tasks[t].pc = "pending"
    /\ tasks' = [tasks EXCEPT ![t].pc = "lookup", ![t].now = clock]
    /\ Yield(t, "lookup")
    /\ UNCHANGED <<alerts, fingerprint_index, sequence, clock, historyVars, probe, auditVars, calc>>

\* upsert_alert, lines 26-30
Lookup(t) ==
    /\ MayRun(t)
    /\ tasks[t].pc = "lookup"
    /\ LET existing_id == DictGet(fingerprint_index, TaskAlert(t).fingerprint, "")
           pc == IF existing_id # "" /\ existing_id \in AlertIds(alerts)
                 THEN "window" ELSE "new_id_read"
       IN /\ tasks' = [tasks EXCEPT ![t].pc = pc, ![t].existing_id = existing_id]
          /\ Yield(t, pc)
    /\ UNCHANGED <<alerts, fingerprint_index, sequence, clock, historyVars, probe, auditVars, calc>>

\* upsert_alert, lines 31-42: within the window the existing record is updated
MergeExisting(t) ==
    /\ MayRun(t)
    /\ tasks[t].pc = "window"
    /\ LET existing == AlertAt(alerts, tasks[t].existing_id)
       IN IF WithinWindow(clock, existing)
          THEN /\ alerts' = AlertsSet(alerts, Merged(existing, TaskAlert(t), clock))
               /\ tasks' = [tasks EXCEPT ![t].pc = "return",
                                         ![t].model_id = existing.id]
               /\ Yield(t, "return")
          ELSE /\ alerts' = alerts
               /\ tasks' = [tasks EXCEPT ![t].pc = "new_id_read"]
               /\ Yield(t, "new_id_read")
    /\ UNCHANGED <<fingerprint_index, sequence, clock, historyVars, probe, auditVars, calc>>

\* _new_id, line 22: self._sequence is read ...
NewIdRead(t) ==
    /\ MayRun(t)
    /\ tasks[t].pc = "new_id_read"
    /\ tasks' = [tasks EXCEPT ![t].pc = "new_id_write", ![t].read_sequence = sequence]
    /\ Yield(t, "new_id_write")
    /\ UNCHANGED <<alerts, fingerprint_index, sequence, clock, historyVars, probe, auditVars, calc>>

\* ... and written back one higher; line 23 formats the value it then holds
NewIdWrite(t) ==
    /\ MayRun(t)
    /\ tasks[t].pc = "new_id_write"
    /\ sequence' = tasks[t].read_sequence + 1
    /\ tasks' = [tasks EXCEPT ![t].pc = "store",
                              ![t].model_id = _new_id(tasks[t].read_sequence)]
    /\ issued' = Append(issued, _new_id(tasks[t].read_sequence))
    /\ Yield(t, "store")
    /\ UNCHANGED <<alerts, fingerprint_index, clock, ops, streak, last, probe, auditVars, calc>>

\* upsert_alert, lines 44-62
StoreModel(t) ==
    /\ MayRun(t)
    /\ tasks[t].pc = "store"
    /\ alerts' = AlertsSet(alerts, NewModel(TaskAlert(t), tasks[t].model_id, clock))
    /\ tasks' = [tasks EXCEPT ![t].pc = "index"]
    /\ Yield(t, "index")
    /\ UNCHANGED <<fingerprint_index, sequence, clock, historyVars, probe, auditVars, calc>>

\* upsert_alert, line 63
IndexModel(t) ==
    /\ MayRun(t)
    /\ tasks[t].pc = "index"
    /\ fingerprint_index' = DictSet(fingerprint_index, TaskAlert(t).fingerprint,
                                    tasks[t].model_id)
    /\ tasks' = [tasks EXCEPT ![t].pc = "return"]
    /\ Yield(t, "return")
    /\ UNCHANGED <<alerts, sequence, clock, historyVars, probe, auditVars, calc>>

\* upsert_alert returns; generate_alerts turns to its next alert or returns
ReturnAlert(t) ==
    /\ MayRun(t)
    /\ tasks[t].pc = "return"
    /\ LET pc == IF Len(tasks[t].todo) > 1 THEN "lookup" ELSE "done"
       IN /\ tasks' = [tasks EXCEPT ![t].pc = pc,
                                    ![t].todo = Tail(@),
                                    ![t].returned = Append(@, tasks[t].model_id)]
          /\ Yield(t, pc)
    /\ UNCHANGED <<alerts, fingerprint_index, sequence, clock, historyVars, probe, auditVars, calc>>

NextLoop ==
    \E t \in Requests :
        \/ StartHandler(t)
        \/ Lookup(t)
        \/ MergeExisting(t)
        \/ NewIdRead(t)
        \/ NewIdWrite(t)
        \/ StoreModel(t)
        \/ IndexModel(t)
        \/ ReturnAlert(t)

SpecLoop == InitLoop /\ [][NextLoop]_vars

\* ------------------------------------------------------------ properties
\* the step is a call of the store operation op
IsCall(op) == ops' = ops + 1 /\ last'.op = op

Occurrences(alert) == alert.meta["occurrences"]

WithFingerprint(s, fp) == {i \in DOMAIN s : s[i].fingerprint = fp}

\* C1: n >= 2 upserts of one fingerprint, the first into a store without it and
\* each later one within the dedupe window of the record's last update, leave
\* exactly one record with that fingerprint, whose id every one of the upserts
\* returned and whose meta.occurrences is n.
C1_DedupeCountsOccurrences ==
    (last.op = "upsert" /\ streak[last.alert.fingerprint].n >= 2) =>
        LET fp == last.alert.fingerprint
        IN /\ last.ret.id = streak[fp].id
           /\ fingerprint_index[fp] = streak[fp].id
           /\ Occurrences(last.ret) = streak[fp].n
           /\ Cardinality(WithFingerprint(alerts, fp)) = 1

\* C2 as the specification states it: an upsert of a fingerprint the store holds
\* merges into the existing record whatever time has passed since its last update.
C2_MergesWhateverTheElapsedTime ==
    [][IsCall("upsert") =>
         \A e \in Existing(alerts, fingerprint_index, last'.alert.fingerprint) :
           /\ last'.ret.id = e.id
           /\ AlertIds(alerts') = AlertIds(alerts)
           /\ Occurrences(last'.ret) = Occurrences(e) + 1]_vars

\* C2, amended: an upsert of a fingerprint the store holds merges into the existing
\* record (same id, no further record, occurrences incremented) when now minus the
\* record's updated_at is at most the dedupe window; when more time has passed the
\* alert is stored as a record of its own, under its own id or else the next
\* sequential id, the index is repointed to it and the existing record is neither
\* incremented nor removed.
C2_MergesOnlyWithinTheWindow ==
    [][IsCall("upsert") =>
         \A e \in Existing(alerts, fingerprint_index, last'.alert.fingerprint) :
           IF clock - FromIsoFormat(e.updated_at) <= DedupeWindowMinutes
           THEN /\ last'.ret.id = e.id
                /\ AlertIds(alerts') = AlertIds(alerts)
                /\ Occurrences(last'.ret) = Occurrences(e) + 1
                /\ fingerprint_index' = fingerprint_index
           ELSE /\ last'.ret.id = IF last'.alert.id # "" THEN last'.alert.id
                                  ELSE _new_id(sequence)
                /\ fingerprint_index'[last'.alert.fingerprint] = last'.ret.id
                /\ AlertIds(alerts') = AlertIds(alerts) \cup {last'.ret.id}
                /\ last'.ret.id # e.id => AlertAt(alerts', e.id) = e
                /\ last'.ret.created_at = OrElse(last'.alert.created_at, IsoFormat(clock))]_vars

\* a second record for a fingerprint whose first record is still in the store
C2_Witness ==
    /\ last.op = "upsert"
    /\ Cardinality(WithFingerprint(alerts, last.alert.fingerprint)) = 2
    /\ \E i \in WithFingerprint(alerts, last.alert.fingerprint) :
         Occurrences(alerts[i]) = 2

\* C3: acknowledge and resolve of an id the store does not hold raise KeyError,
\* answered with HTTP 404, and leave the alerts, the fingerprint index and the id
\* sequence as they were.
C3_UnknownIdIsNotFound ==
    [][(IsCall("acknowledge") \/ IsCall("resolve")) /\ last'.id \notin AlertIds(alerts) =>
         /\ last'.raised = "KeyError"
         /\ last'.http = 404
         /\ alerts' = alerts
         /\ fingerprint_index' = fingerprint_index
         /\ sequence' = sequence]_vars

C3_Witness ==
    /\ last.op = "resolve"
    /\ last.raised = "KeyError"
    /\ Len(alerts) = 2
    /\ last.id \notin AlertIds(alerts)

\* C4: on a known id acknowledge leaves status acknowledged, meta.ack_by the actor
\* and updated_at the clock's time; resolve leaves status resolved,
\* meta.resolved_by the actor and updated_at the clock's time, and keeps meta.ack_by.
C4_AckAndResolveStampTheAlert ==
    [][/\ (IsCall("acknowledge") /\ last'.id \in AlertIds(alerts)) =>
            LET after == AlertAt(alerts', last'.id)
            IN /\ last'.raised = ""
               /\ after.status = "acknowledged"
               /\ after.meta["ack_by"] = last'.actor
               /\ after.updated_at = IsoFormat(clock)
       /\ (IsCall("resolve") /\ last'.id \in AlertIds(alerts)) =>
            LET before == AlertAt(alerts, last'.id)
                after == AlertAt(alerts', last'.id)
            IN /\ last'.raised = ""
               /\ after.status = "resolved"
               /\ after.meta["resolved_by"] = last'.actor
               /\ after.updated_at = IsoFormat(clock)
               /\ "ack_by" \in DOMAIN before.meta =>
                    /\ "ack_by" \in DOMAIN after.meta
                    /\ after.meta["ack_by"] = before.meta["ack_by"]]_vars

\* an alert resolved by one actor after another actor acknowledged it
C4_Witness ==
    /\ last.op = "resolve"
    /\ last.raised = ""
    /\ LET alert == AlertAt(alerts, last.id)
       IN /\ "ack_by" \in DOMAIN alert.meta
          /\ alert.meta["ack_by"] # last.actor
          /\ alert.meta["resolved_by"] = last.actor
          /\ alert.updated_at # alert.created_at

\* C5: the status of a stored alert changes only from active to acknowledged or
\* from any status to resolved.
C5_StatusOnlyMovesForward ==
    [][\A id \in AlertIds(alerts) \cap AlertIds(alerts') :
         LET before == AlertAt(alerts, id).status
             after == AlertAt(alerts', id).status
         IN \/ after = before
            \/ before = "active" /\ after = "acknowledged"
            \/ after = "resolved"]_vars

\* the number n for which _new_id, called with _sequence = n - 1, returned the id
SequenceNumber(id) == CHOOSE n \in 1..(Len(issued) + 1) : _new_id(n - 1) = id

\* C7: the ids the store assigns to alerts upserted with an empty id come from a
\* strictly increasing sequence: no two of them are equal, also across clear_all.
C7_AssignedIdsNeverRepeat ==
    /\ \A i, j \in DOMAIN issued : i # j => issued[i] # issued[j]
    /\ \A i \in DOMAIN issued :
         /\ \E n \in 1..Len(issued) : _new_id(n - 1) = issued[i]
         /\ i > 1 => SequenceNumber(issued[i - 1]) < SequenceNumber(issued[i])
    /\ (last.op = "upsert" /\ ~last.merged /\ last.alert.id = "") =>
         /\ last.ret.id = issued[Len(issued)]
         /\ last.ret.id \in AlertIds(alerts)

\* an id assigned after a clear_all that removed the records assigned before it
C7_Witness ==
    /\ Len(issued) = 2
    /\ last.op = "upsert"
    /\ AlertIds(alerts) = {issued[2]}

\* C9: list_alerts(status) returns the stored alerts whose status is the filter
\* (all of them without a filter), each once, ordered by updated_at descending.
C9_ListIsFilteredAndSorted ==
    \A status \in AlertStatus \cup {""} :
      LET listed == list_alerts(alerts, status)
          wanted == {i \in DOMAIN alerts : status = "" \/ alerts[i].status = status}
      IN /\ Len(listed) = Cardinality(wanted)
         /\ \A i \in wanted : \E j \in DOMAIN listed : listed[j] = alerts[i]
         /\ \A j, k \in DOMAIN listed :
              j < k => /\ listed[j].id # listed[k].id
                       /\ ~StrLess(listed[j].updated_at, listed[k].updated_at)

\* three alerts, the oldest stored first and two of the same age, one of them left
\* out by the filter
C9_Witness ==
    /\ Len(alerts) = 3
    /\ StrLess(alerts[1].updated_at, alerts[2].updated_at)
    /\ alerts[2].updated_at = alerts[3].updated_at
    /\ Len(list_alerts(alerts, "active")) = 2
    /\ list_alerts(alerts, "") = <<alerts[2], alerts[3], alerts[1]>>

\* C10: clear_all returns the number of records it removed; after it list_alerts
\* is empty and get_alert finds no id, and an upsert of a fingerprint the store
\* held before the clear creates a fresh record with occurrences = 1.
C10_ClearForgetsEverything ==
    [][/\ IsCall("clear") =>
            /\ last'.ret = Len(alerts)
            /\ \A status \in AlertStatus \cup {""} : list_alerts(alerts', status) = <<>>
            /\ \A id \in RequestIds \cup AlertIds(alerts) : get_alert(alerts', id) = {}
       /\ (IsCall("upsert") /\ last.op = "clear"
             /\ last'.alert.fingerprint \in last.cleared) =>
            /\ alerts' = <<last'.ret>>
            /\ Occurrences(last'.ret) = 1]_vars

\* the entities hold the same key/value pairs
SameItems(a, b) == {a[i] : i \in DOMAIN a} = {b[i] : i \in DOMAIN b}

\* C8: two entities with the same key/value pairs, in whatever key order, give the
\* same fingerprint for the same type and mode, and the alerts built from them end
\* up in one record.
C8_FingerprintIgnoresKeyOrder ==
    SameItems(probe.a, probe.b) =>
        /\ probe.op # "built" => probe.fp_a = probe.fp_b
        /\ probe.op = "both stored" =>
             /\ Len(alerts) = 1
             /\ Occurrences(alerts[1]) = 2
             /\ alerts[1].fingerprint = probe.fp_b

\* three keys given in two different orders, stored as one record
C8_Witness ==
    /\ probe.op = "both stored"
    /\ Len(probe.a) = 3
    /\ probe.a # probe.b
    /\ SameItems(probe.a, probe.b)
    /\ Len(alerts) = 1

\* the upserts of the fingerprint that have returned
ReturnedFor(fp) ==
    UNION {{<<t, i>> : i \in {k \in DOMAIN tasks[t].returned :
                                /\ tasks[t].returned[k] \in AlertIds(alerts)
                                /\ AlertAt(alerts, tasks[t].returned[k]).fingerprint = fp}} :
           t \in Requests}

AllReturned == \A t \in Requests : tasks[t].pc = "done"

\* C6: with requests handled concurrently, upserts of one new fingerprint create
\* one record and the others merge into it, and no two records get the same
\* sequential id.
C6_ConcurrentUpsertsKeepTheStore ==
    /\ \A i, j \in DOMAIN issued : i # j => issued[i] # issued[j]
    /\ \A i, j \in DOMAIN alerts :
         i # j => alerts[i].fingerprint # alerts[j].fingerprint
    /\ AllReturned =>
         /\ Len(alerts) = Len(issued)
         /\ \A fp \in DOMAIN fingerprint_index :
              LET id == fingerprint_index[fp]
              IN /\ id \in AlertIds(alerts)
                 /\ AlertAt(alerts, id).fingerprint = fp
                 /\ Occurrences(AlertAt(alerts, id)) = Cardinality(ReturnedFor(fp))
         /\ \A t \in Requests : Len(tasks[t].returned) > 0

\* two requests have both upserted the same two fingerprints
C6_Witness ==
    /\ AllReturned
    /\ Len(alerts) = 2
    /\ \A i \in DOMAIN alerts : Occurrences(alerts[i]) = 2

\* ------------------------------------------------------------ audit store
\* the most events a caller appends, and the most pages a reader asks for
MaxAppends == 4
MaxPages == 2

\* AuditStore._next_id: the id the next call returns
_next_id(seq) == "audit-" \o ZeroPad(ToString(seq + 1), 8)

\* variant: the overflow is cut from the newest end
TrimNewest(events, size) ==
    IF Len(events) > size THEN SubSeq(events, 1, size) ELSE events

\* append, lines 29-31: del self._events[:overflow]
Trim(events, size) ==
    IF Len(events) > size
    THEN LET overflow == Len(events) - size
         IN SubSeq(events, overflow + 1, Len(events))
    ELSE events

\* AuditStore.append
append(events, seq, size, event) ==
    LET fresh == event.id = ""
        payload == [event EXCEPT !.id = IF fresh THEN _next_id(seq) ELSE event.id]
    IN [events |-> Trim(Append(events, payload), size),
        seq    |-> IF fresh THEN seq + 1 ELSE seq,
        ret    |-> payload]

\* variant: every actor is shown every event
VisibleToAll(events, actor) == events

\* list_events, lines 35-38
Visible(events, actor) ==
    IF actor.role = "admin" THEN events
    ELSE SelectSeq(events, LAMBDA event : event.actor_email = actor.email)

\* visible.sort(key=ts, reverse=True) is stable: an event goes after every event
\* already placed whose ts is not smaller than its own
RECURSIVE InsertByTs(_, _)
InsertByTs(event, placed) ==
    IF placed = <<>> THEN <<event>>
    ELSE IF StrLess(placed[1].ts, event.ts) THEN <<event>> \o placed
    ELSE <<placed[1]>> \o InsertByTs(event, Tail(placed))

RECURSIVE SortByTs(_, _)
SortByTs(events, placed) ==
    IF events = <<>> THEN placed
    ELSE SortByTs(Tail(events), InsertByTs(events[1], placed))

Min(a, b) == IF a < b THEN a ELSE b

Max(a, b) == IF a > b THEN a ELSE b

\* list_events, lines 42-47: one past the first event whose id is the cursor, else 0
StartAfter(visible, cursor) ==
    LET hits == {idx \in DOMAIN visible : visible[idx].id = cursor}
    IN IF cursor # "" /\ hits # {}
       THEN CHOOSE idx \in hits : \A other \in hits : idx <= other
       ELSE 0

\* AuditStore.list_events; cursor "" stands for None (both start at the top)
list_events(events, actor, limit, cursor) ==
    LET visible == SortByTs(Visible(events, actor), <<>>)
        start == StartAfter(visible, cursor)
        safe_limit == Max(1, Min(limit, MaxLimit))
        page == SubSeq(visible, start + 1, Min(start + safe_limit, Len(visible)))
    IN [page |-> page,
        next_cursor |-> IF start + safe_limit < Len(visible) /\ page # <<>>
                        THEN page[Len(page)].id ELSE ""]

\* the users of security.py that write, and one that only reads
AuditActors ==
    {[email |-> "ops@example.com", role |-> "operator"],
     [email |-> "admin@example.com", role |-> "admin"]}

ListingActors == AuditActors \cup {[email |-> "viewer@example.com", role |-> "viewer"]}

AuditTimes == {0, 1}

\* the sizes the model's audit stores are built with
AuditSizes == {1, 2, 3}

\* the events a caller hands to append: the store gives each its id
InputEvents ==
    {[id          |-> "",
      ts          |-> IsoFormat(t),
      actor_email |-> a.email,
      actor_role  |-> a.role,
      action      |-> "alerts.ack",
      target_id   |-> "alert-000001",
      metadata    |-> EmptyDict] : t \in AuditTimes, a \in AuditActors}

\* the limits a reader passes: below the floor, small ones, and above the cap
InputLimits == {0, 1, 2, 600}

InitAudit ==
    /\ InitStore
    /\ max_size \in AuditSizes
    /\ audit_events = <<>>
    /\ audit_sequence = 0
    /\ appended = <<>>
    /\ session = NoCall
    /\ probe = NoCall
    /\ tasks = <<>>
    /\ running = 0
    /\ calc = NoCall

\* a caller appends an event
AuditAppend(event) ==
    /\ Len(appended) < MaxAppends
    /\ LET r == append(audit_events, audit_sequence, max_size, event)
       IN /\ audit_events' = r.events
          /\ audit_sequence' = r.seq
          /\ appended' = Append(appended, r.ret)
    /\ ops' = ops + 1
    /\ UNCHANGED <<alerts, fingerprint_index, sequence, clock, issued, streak, last,
                   max_size, session, probe, tasks, running, calc>>

\* a reader asks for the first page
ListFirst(actor, limit) ==
    /\ session = NoCall
    /\ LET r == list_events(audit_events, actor, limit, "")
       IN session' = [op |-> "listed", actor |-> actor, cursor |-> r.next_cursor,
                      pages |-> <<r.page>>]
    /\ ops' = ops + 1
    /\ UNCHANGED <<alerts, fingerprint_index, sequence, clock, issued, streak, last,
                   max_size, audit_events, audit_sequence, appended,
                   probe, tasks, running, calc>>

\* the reader asks for the page after the cursor it was given
ListNext(limit) ==
    /\ session.op = "listed"
    /\ Len(session.pages) < MaxPages
    /\ session.cursor # ""
    /\ LET r == list_events(audit_events, session.actor, limit, session.cursor)
       IN session' = [session EXCEPT !.cursor = r.next_cursor,
                                     !.pages = Append(@, r.page)]
    /\ ops' = ops + 1
    /\ UNCHANGED <<alerts, fingerprint_index, sequence, clock, issued, streak, last,
                   max_size, audit_events, audit_sequence, appended,
                   probe, tasks, running, calc>>

NextAudit ==
    \/ \E event \in InputEvents : AuditAppend(event)
    \/ \E actor \in ListingActors, limit \in InputLimits : ListFirst(actor, limit)
    \/ \E limit \in InputLimits : ListNext(limit)

SpecAudit == InitAudit /\ [][NextAudit]_vars

\* the last n elements of s, all of s when it has fewer
LastOf(s, n) == SubSeq(s, Len(s) - Min(n, Len(s)) + 1, Len(s))

\* C11: after any sequence of append calls the store holds at most max_size
\* events, and they are the max_size most recently appended ones, in append order
C11_StoreHoldsTheNewestEvents ==
    /\ Len(audit_events) <= max_size
    /\ audit_events = LastOf(appended, max_size)

\* events were trimmed from a store that holds more than one
C11_Witness ==
    /\ max_size >= 2
    /\ Len(appended) > max_size
    /\ Len(audit_events) = max_size

PageEvents(page) == {page[i] : i \in DOMAIN page}

\* the cursors a reader may pass: None, the id of any event held, and a stale id
InputCursors == {""} \cup {audit_events[i].id : i \in DOMAIN audit_events}
                     \cup {"audit-00000000"}

\* C12: in every state, list_events for an actor who is not admin returns only
\* events whose actor_email is the actor's email, whatever limit and cursor are
\* passed; for an admin it returns the events of every actor
C12_ListingIsScopedByRole ==
    \A actor \in ListingActors, limit \in InputLimits, cursor \in InputCursors :
        LET r == list_events(audit_events, actor, limit, cursor)
        IN /\ PageEvents(r.page) \subseteq PageEvents(audit_events)
           /\ actor.role # "admin" =>
                \A event \in PageEvents(r.page) : event.actor_email = actor.email
           /\ (actor.role = "admin" /\ cursor = "" /\ limit >= Len(audit_events)) =>
                PageEvents(r.page) = PageEvents(audit_events)

\* the store holds events of two actors, the operator is shown its own ones and
\* the admin is shown all of them
C12_Witness ==
    /\ \E i, j \in DOMAIN audit_events :
            audit_events[i].actor_email # audit_events[j].actor_email
    /\ session # NoCall
    /\ session.actor.role = "operator"
    /\ session.pages[1] # <<>>
    /\ Len(list_events(audit_events, [email |-> "admin@example.com", role |-> "admin"],
                       2, "").page) = 2

\* every event the reader was given, in the order it was given them
RECURSIVE Flatten(_)
Flatten(pages) == IF pages = <<>> THEN <<>> ELSE pages[1] \o Flatten(Tail(pages))

\* C13: across successive list_events calls by one actor, each passing the
\* next_cursor of the one before, the cursor only moves forward and no event is
\* returned twice, also when events are appended and trimmed between the calls
C13_CursorMovesForwardWithoutRepeats ==
    session # NoCall =>
        LET given == Flatten(session.pages)
        IN /\ \A i, j \in DOMAIN given : given[i].id = given[j].id => i = j
           /\ \A i, j \in DOMAIN given : i < j => ~StrLess(given[i].ts, given[j].ts)

\* ------------------------------------------------------------ audited requests
\* The handlers that change the AlertStore write an audit event through
\* _log_audit_event.  The append may fail while the event is built, before the
\* store is touched, or inside AuditStore.append after _next_id has run.
AppendOutcomes == {"stored", "fails building the event", "fails inside append"}

\* variant: the failure of the append reaches the handler
_log_audit_event_raising(events, seq, size, user, action, target_id, metadata, now, outcome) ==
    IF outcome = "stored"
    THEN LET r == append(events, seq, size,
                         [id |-> "", ts |-> IsoFormat(now), actor_email |-> user.email,
                          actor_role |-> user.role, action |-> action,
                          target_id |-> target_id, metadata |-> metadata])
         IN [events |-> r.events, seq |-> r.seq, stored |-> <<r.ret>>, raised |-> ""]
    ELSE [events |-> events,
          seq    |-> IF outcome = "fails inside append" THEN seq + 1 ELSE seq,
          stored |-> <<>>,
          raised |-> "Exception"]

\* _log_audit_event: try: AUDIT_STORE.append(AuditEvent(...)) except Exception: log
_log_audit_event(events, seq, size, user, action, target_id, metadata, now, outcome) ==
    IF outcome = "stored"
    THEN LET r == append(events, seq, size,
                         [id |-> "", ts |-> IsoFormat(now), actor_email |-> user.email,
                          actor_role |-> user.role, action |-> action,
                          target_id |-> target_id, metadata |-> metadata])
         IN [events |-> r.events, seq |-> r.seq, stored |-> <<r.ret>>, raised |-> ""]
    ELSE [events |-> events,
          seq    |-> IF outcome = "fails inside append" THEN seq + 1 ELSE seq,
          stored |-> <<>>,
          raised |-> ""]

\* security.py: WRITE_ROLES and ADMIN_ONLY, as require_role admits users
WriteUsers == {user \in AuditActors : user.role \in {"admin", "operator"}}

AdminUsers == {user \in AuditActors : user.role = "admin"}

\* AckRequest.actor and ResolveRequest.actor: "system" unless the body names one
RequestActors == {"system", "ops@example.com"}

\* the alerts an analysis run leaves in the store for the requests to act on
HandlerAlerts == {EngineAlert(t, ClusterEntity, "demo", 0) : t \in InputTypes}

\* the response of a handler whose exception is not a KeyError
HttpStatus(raised) ==
    IF raised = "" THEN 200 ELSE IF raised = "KeyError" THEN 404 ELSE 500

\* the handlers acknowledge_alert and resolve_alert differ in the store call and
\* in the action they log
StoreCall(op, s, alert_id, actor, now) ==
    IF op = "alerts.ack" THEN acknowledge(s, alert_id, actor, now)
    ELSE resolve(s, alert_id, actor, now)

\* acknowledge_alert and resolve_alert, lines 850-866 and 879-895
ChangeAlert(op, user, alert_id, actor, outcome) ==
    /\ ops < MaxOps
    /\ LET existing == get_alert(alerts, alert_id)
           status_before == IF existing = {} THEN "None"
                            ELSE AlertAt(alerts, alert_id).status
           by == IF actor = "" THEN user.email ELSE actor
           r == StoreCall(op, alerts, alert_id, by, clock)
       IN IF r.raised # ""
          THEN /\ UNCHANGED <<alerts, audit_events, audit_sequence, appended>>
               /\ last' = [op |-> op, id |-> alert_id, actor |-> actor, user |-> user,
                           audit |-> "skipped", http |-> HttpStatus(r.raised),
                           body |-> <<>>]
          ELSE LET updated == AlertAt(r.alerts, alert_id)
                   log == _log_audit_event(audit_events, audit_sequence, max_size,
                                user, op, alert_id,
                                [severity |-> updated.severity,
                                 status_before |-> status_before,
                                 status_after |-> updated.status],
                                clock, outcome)
               IN /\ alerts' = r.alerts
                  /\ audit_events' = log.events
                  /\ audit_sequence' = log.seq
                  /\ appended' = appended \o log.stored
                  /\ last' = [op |-> op, id |-> alert_id, actor |-> actor,
                              user |-> user,
                              audit |-> IF outcome = "stored" THEN "stored" ELSE "failed",
                              http |-> HttpStatus(log.raised),
                              body |-> IF log.raised = "" THEN <<updated>> ELSE <<>>]
    /\ ops' = ops + 1
    /\ UNCHANGED <<fingerprint_index, sequence, clock, issued, streak, max_size,
                   session, probe, tasks, running, calc>>

\* POST /api/alerts/{alert_id}/ack, with the audit event it writes
acknowledge_alert(user, alert_id, actor, outcome) ==
    ChangeAlert("alerts.ack", user, alert_id, actor, outcome)

\* POST /api/alerts/{alert_id}/resolve, with the audit event it writes
resolve_alert(user, alert_id, actor, outcome) ==
    ChangeAlert("alerts.resolve", user, alert_id, actor, outcome)

\* POST /api/alerts/clear, with the audit event it writes
clear_alerts(user, outcome) ==
    /\ ops < MaxOps
    /\ LET r == clear_all(alerts, fingerprint_index, sequence)
           log == _log_audit_event(audit_events, audit_sequence, max_size, user,
                                   "alerts.clear", "None", [cleared |-> r.ret],
                                   clock, outcome)
       IN /\ alerts' = r.alerts
          /\ fingerprint_index' = r.index
          /\ sequence' = r.seq
          /\ audit_events' = log.events
          /\ audit_sequence' = log.seq
          /\ appended' = appended \o log.stored
          /\ last' = [op |-> "alerts.clear", user |-> user,
                      audit |-> IF outcome = "stored" THEN "stored" ELSE "failed",
                      http |-> HttpStatus(log.raised),
                      body |-> IF log.raised = ""
                               THEN <<[status |-> "success", cleared |-> r.ret]>>
                               ELSE <<>>]
    /\ streak' = EmptyDict
    /\ ops' = ops + 1
    /\ UNCHANGED <<clock, issued, max_size, session, probe, tasks, running, calc>>

NextHandlers ==
    \/ \E d \in TickSteps : Tick(d)
    \/ \E alert \in HandlerAlerts : Upsert(alert)
    \/ \E user \in WriteUsers, alert_id \in RequestIds, actor \in RequestActors,
          outcome \in AppendOutcomes : acknowledge_alert(user, alert_id, actor, outcome)
    \/ \E user \in WriteUsers, alert_id \in RequestIds, actor \in RequestActors,
          outcome \in AppendOutcomes : resolve_alert(user, alert_id, actor, outcome)
    \/ \E user \in AdminUsers, outcome \in AppendOutcomes : clear_alerts(user, outcome)

SpecHandlers == Init /\ [][NextHandlers]_vars

\* the step is a request to one of the audited handlers whose audit append failed
AuditFailed(op) == ops' = ops + 1 /\ last'.op = op /\ last'.audit = "failed"

\* C14: when the audit append fails during an acknowledge, resolve or clear
\* request, the request still returns its normal result and the change it made
\* to the AlertStore stays in place
C14_AuditFailureIsSwallowed ==
    [][/\ AuditFailed("alerts.ack") =>
            LET r == acknowledge(alerts, last'.id, last'.actor, clock)
            IN /\ last'.http = 200
               /\ last'.body = <<AlertAt(r.alerts, last'.id)>>
               /\ alerts' = r.alerts
               /\ audit_events' = audit_events
       /\ AuditFailed("alerts.resolve") =>
            LET r == resolve(alerts, last'.id, last'.actor, clock)
            IN /\ last'.http = 200
               /\ last'.body = <<AlertAt(r.alerts, last'.id)>>
               /\ alerts' = r.alerts
               /\ audit_events' = audit_events
       /\ AuditFailed("alerts.clear") =>
            /\ last'.http = 200
            /\ last'.body = <<[status |-> "success", cleared |-> Len(alerts)]>>
            /\ alerts' = <<>>
            /\ fingerprint_index' = EmptyDict
            /\ audit_events' = audit_events
      ]_vars

\* an acknowledge whose audit append failed: the alert is acknowledged, the
\* request answered 200 with it, and the audit store holds no event of it
C14_Witness ==
    /\ last.op = "alerts.ack"
    /\ last.audit = "failed"
    /\ last.http = 200
    /\ last.body # <<>>
    /\ last.body[1].status = "acknowledged"
    /\ AlertAt(alerts, last.id).status = "acknowledged"
    /\ audit_events = <<>>

\* ------------------------------------------------------------ anomaly detection
\* Metric values are whole percents and whole Mbps; on such values the float
\* arithmetic of the detector is exact, so a mean is kept as the pair of its
\* sum and its count and compared by cross-multiplication.
MaxHistory == 2

RECURSIVE SumNetwork(_)
SumNetwork(history) ==
    IF history = <<>> THEN 0 ELSE history[1].network_io + SumNetwork(Tail(history))

\* detect_anomalies, lines 25-29: network_baseline as [sum, count]
NetworkBaseline(current, history) ==
    IF history # <<>> THEN [sum |-> SumNetwork(history), count |-> Len(history)]
    ELSE [sum |-> current.network_io, count |-> 1]

\* detect_anomalies, lines 24 and 35
CpuDelta(current, history) ==
    IF history # <<>> THEN current.cpu_usage - history[Len(history)].cpu_usage ELSE 0

\* variant: the threshold itself counts as exceeded
CpuSpikesAtThreshold(cpu, cpu_delta) == cpu >= 85 \/ cpu_delta >= 20

\* detect_anomalies, line 36
CpuSpikes(cpu, cpu_delta) == cpu > 85 \/ cpu_delta > 20

\* variant: the baseline is not required to be positive
NetworkSpikesOverAnyBaseline(net, baseline) ==
    2 * net * baseline.count > 3 * baseline.sum

\* detect_anomalies, line 59: network_baseline > 0 and net > network_baseline * 1.5
NetworkSpikes(net, baseline) ==
    baseline.sum > 0 /\ 2 * net * baseline.count > 3 * baseline.sum

\* round(p / q), q > 0, to the nearest whole number, a tie to the even one (Python
\* decides a tie by the float nearest to the value; the inputs followed meet none)
RoundDiv(p, q) ==
    LET f == p \div q
        r == p % q
    IN IF 2 * r < q THEN f
       ELSE IF 2 * r > q THEN f + 1
       ELSE IF f % 2 = 0 THEN f ELSE f + 1

\* repr() of a float of two decimals between 0 and 1, given in hundredths
FloatRepr(h) ==
    IF h = 100 THEN "1.0"
    ELSE IF h % 10 = 0 THEN "0." \o ToString(h \div 10)
    ELSE IF h < 10 THEN "0.0" \o ToString(h)
    ELSE "0." \o ToString(h)

\* float() of such a text, in hundredths
Hundredths(text) == CHOOSE h \in 0..100 : FloatRepr(h) = text

\* _confidence(base, over_by, scale): base in hundredths, over_by / scale = num / den
_confidence(base, num, den) ==
    FloatRepr(Max(50, Min(99, RoundDiv(base * den + 100 * num, den))))

\* detect_anomalies
detect_anomalies(current, history) ==
    LET baseline == NetworkBaseline(current, history)
        cpu == current.cpu_usage
        mem == current.memory_usage
        net == current.network_io
        cpu_delta == CpuDelta(current, history)
        cpu_spike ==
            IF CpuSpikes(cpu, cpu_delta)
            THEN <<[type |-> "cpu_spike",
                    severity |-> IF cpu >= 95 \/ cpu_delta >= 30 THEN "critical"
                                 ELSE "high",
                    confidence |->
                        _confidence(78, Max(Max(cpu - 85, cpu_delta - 20), 0), 30),
                    explanation |-> IF cpu > 85 THEN "CPU exceeded 85% threshold"
                                    ELSE "CPU increased by more than 20% in last window"]>>
            ELSE <<>>
        memory_pressure ==
            IF mem > 90
            THEN <<[type |-> "memory_pressure",
                    severity |-> IF mem >= 95 THEN "critical" ELSE "high",
                    confidence |-> _confidence(80, mem - 90, 20),
                    explanation |-> "Memory exceeded 90% threshold"]>>
            ELSE <<>>
        network_spike ==
            IF NetworkSpikes(net, baseline)
            THEN <<[type |-> "network_spike",
                    severity |-> IF net * baseline.count < 2 * baseline.sum THEN "high"
                                 ELSE "critical",
                    confidence |->
                        _confidence(74, 2 * net * baseline.count - 3 * baseline.sum,
                                    2 * Max(baseline.sum, baseline.count)),
                    explanation |-> "Network I/O spiked above 1.5x baseline"]>>
            ELSE <<>>
    IN cpu_spike \o memory_pressure \o network_spike

\* a feature vector, of the fields the engines read
Feature(cpu, mem, storage, net) ==
    [cpu_usage |-> cpu, memory_usage |-> mem, storage_usage |-> storage,
     network_io |-> net]

CurrentFeatures ==
    {Feature(cpu, mem, 40, net) :
        cpu \in {60, 85, 86, 95}, mem \in {90, 91, 95}, net \in {0, 60, 90, 91, 120}}

HistoryFeatures ==
    {Feature(cpu, 70, 40, net) : cpu \in {30, 39, 40, 65}, net \in {0, 40, 60}}

\* the sequences over S of length at most n
RECURSIVE SeqsUpTo(_, _)
SeqsUpTo(S, n) ==
    IF n = 0 THEN {<<>>}
    ELSE LET shorter == SeqsUpTo(S, n - 1)
         IN shorter \cup {Append(s, x) : s \in shorter, x \in S}

\* every other variable while a computation is followed
idleVars == <<alerts, fingerprint_index, sequence, clock, issued, ops, streak, last,
              probe, tasks, running, auditVars>>

InitIdle ==
    /\ InitStore
    /\ InitAuditStore
    /\ probe = NoCall
    /\ tasks = <<>>
    /\ running = 0

InitAnomaly ==
    /\ InitIdle
    /\ calc \in {[op |-> "detect_anomalies", done |-> FALSE, current |-> c,
                  history |-> h, out |-> <<>>] :
                    c \in CurrentFeatures, h \in SeqsUpTo(HistoryFeatures, MaxHistory)}

DetectAnomalies ==
    /\ calc.op = "detect_anomalies"
    /\ ~calc.done
    /\ calc' = [calc EXCEPT !.done = TRUE,
                            !.out = detect_anomalies(calc.current, calc.history)]
    /\ UNCHANGED idleVars

SpecAnomaly == InitAnomaly /\ [][DetectAnomalies]_vars

Detected == calc.op = "detect_anomalies" /\ calc.done

OfType(items, type) == SelectSeq(items, LAMBDA item : item.type = type)

Types(items) == [i \in DOMAIN items |-> items[i].type]

\* C17: detect_anomalies emits cpu_spike iff cpu > 85 or cpu minus the cpu of the
\* last history element > 20, the delta being 0 when the history is empty; the
\* severity is critical iff cpu >= 95 or delta >= 30, else high
C17_CpuSpikeRule ==
    Detected =>
        LET cpu == calc.current.cpu_usage
            h == calc.history
            delta == IF Len(h) = 0 THEN 0 ELSE cpu - h[Len(h)].cpu_usage
            spikes == OfType(calc.out, "cpu_spike")
        IN /\ spikes # <<>> <=> (cpu > 85 \/ delta > 20)
           /\ \A i \in DOMAIN spikes :
                /\ spikes[i].severity \in {"critical", "high"}
                /\ spikes[i].severity = "critical" <=> (cpu >= 95 \/ delta >= 30)

\* a cpu_spike raised by the delta alone, of high severity
C17_Witness ==
    /\ Detected
    /\ calc.current.cpu_usage <= 85
    /\ Len(calc.history) = 2
    /\ calc.current.cpu_usage - calc.history[2].cpu_usage = 21
    /\ OfType(calc.out, "cpu_spike") # <<>>
    /\ OfType(calc.out, "cpu_spike")[1].severity = "high"

\* the mean of the history's network values exceeded by more than half
OverBaseline(net, h) ==
    /\ h # <<>>
    /\ SumNetwork(h) > 0
    /\ 2 * net * Len(h) > 3 * SumNetwork(h)

\* C18: the three anomaly rules are independent: each of cpu_spike,
\* memory_pressure (memory > 90) and network_spike (baseline > 0 and network >
\* 1.5 x the mean of the history's network values) is in the output iff its own
\* rule holds, at most once, and the output is in that order
C18_RulesAreIndependent ==
    Detected =>
        LET cpu == calc.current.cpu_usage
            h == calc.history
            delta == IF Len(h) = 0 THEN 0 ELSE cpu - h[Len(h)].cpu_usage
        IN Types(calc.out) =
              (IF cpu > 85 \/ delta > 20 THEN <<"cpu_spike">> ELSE <<>>)
           \o (IF calc.current.memory_usage > 90 THEN <<"memory_pressure">> ELSE <<>>)
           \o (IF OverBaseline(calc.current.network_io, h) THEN <<"network_spike">>
               ELSE <<>>)

\* all three anomalies at once, in the fixed order
C18_Witness ==
    /\ Detected
    /\ Types(calc.out) = <<"cpu_spike", "memory_pressure", "network_spike">>
    /\ calc.history # <<>>

\* ------------------------------------------------------------ recommendations
MaxAnomalies == 2

\* variant: only the first anomaly is looked at
_contains_first(anomalies, anomaly_type) ==
    anomalies # <<>> /\ anomalies[1].type = anomaly_type

\* _contains
_contains(anomalies, anomaly_type) ==
    \E i \in DOMAIN anomalies : anomalies[i].type = anomaly_type

\* a Recommendation, of the fields the rules set
Recommendation(type, priority, target, reason, confidence, impact) ==
    [type |-> type, priority |-> priority, target |-> target, reason |-> reason,
     confidence |-> confidence, impact |-> impact]

\* variant: the engine also asks for security hardening, with critical priority
generate_recommendations_hardening(features, anomalies, forecast) ==
    <<Recommendation("security_hardening", "critical", "cluster/all",
                     "Harden security policy", "0.91", "Reduce breach risk")>>

\* generate_recommendations
generate_recommendations(features, anomalies, forecast) ==
    LET scale ==
            IF _contains(anomalies, "cpu_spike")
            THEN <<Recommendation("scale_deployment", "high", "deployment/api",
                                  "CPU anomaly indicates sustained pressure", "0.88",
                                  "Reduces throttling and latency")>>
            ELSE <<>>
        tune ==
            IF _contains(anomalies, "memory_pressure")
            THEN <<Recommendation("tune_memory_limits", "high", "deployment/api",
                                  "Memory exceeded safe operating threshold", "0.9",
                                  "Prevents OOM kills")>>
            ELSE <<>>
        proactive ==
            IF forecast.risk_level = "high"
            THEN <<Recommendation("proactive_scaling", "high", "deployment/api",
                                  "Forecast peak at " \o ToString(forecast.predicted_peak)
                                      \o "%",
                                  "0.87", "Prevents SLA breach during predicted peak")>>
            ELSE <<>>
        storage ==
            IF features.storage_usage > 85
            THEN <<Recommendation("storage_optimization", "medium", "namespace/logging",
                                  "Storage usage is above 85%", "0.84",
                                  "Avoids storage saturation")>>
            ELSE <<>>
        recommendations == scale \o tune \o proactive \o storage
    IN IF recommendations = <<>>
       THEN <<Recommendation("maintain_baseline", "low", "cluster/all",
                             "No critical risk detected", "0.8",
                             "Keeps cluster stable while monitoring")>>
       ELSE recommendations

\* schemas.py: Severity, and RiskLevel of a forecast
Severities == {"info", "warning", "high", "critical"}

ForecastRiskLevels == {"low", "moderate", "high"}

\* an AgentAnomaly of the fields the later stages read; one without a confidence
\* is read with the default of the stage that reads it
Anomaly(type, severity) ==
    [type |-> type, severity |-> severity, explanation |-> "rule triggered"]

AnomalyTypes == {"cpu_spike", "memory_pressure", "network_spike"}

\* a ForecastResult, of the fields the later stages read
Forecast(risk_level, predicted_peak) ==
    [risk_level |-> risk_level, predicted_peak |-> predicted_peak]

InitRecommend ==
    /\ InitIdle
    /\ calc \in {[op |-> "generate_recommendations", done |-> FALSE,
                  features |-> Feature(60, 70, storage, 40),
                  anomalies |-> a, forecast |-> Forecast(level, peak), out |-> <<>>] :
                    storage \in {0, 85, 86, 100}, peak \in {84, 92},
                    a \in SeqsUpTo({Anomaly(t, "high") : t \in AnomalyTypes}, MaxAnomalies),
                    level \in ForecastRiskLevels}

GenerateRecommendations ==
    /\ calc.op = "generate_recommendations"
    /\ ~calc.done
    /\ calc' = [calc EXCEPT !.done = TRUE,
                            !.out = generate_recommendations(calc.features,
                                        calc.anomalies, calc.forecast)]
    /\ UNCHANGED idleVars

SpecRecommend == InitRecommend /\ [][GenerateRecommendations]_vars

Recommended == calc.op = "generate_recommendations" /\ calc.done

\* C16: generate_recommendations never returns an empty list: it returns the single
\* maintain_baseline recommendation exactly when no cpu_spike anomaly, no
\* memory_pressure anomaly, no high forecast risk and no storage_usage > 85 is
\* present, and otherwise one recommendation per matching rule in the order
\* scale_deployment, tune_memory_limits, proactive_scaling, storage_optimization
C16_RecommendationsFollowTheRules ==
    Recommended =>
        LET cpu_spike == OfType(calc.anomalies, "cpu_spike") # <<>>
            memory_pressure == OfType(calc.anomalies, "memory_pressure") # <<>>
            high_risk == calc.forecast.risk_level = "high"
            storage_full == calc.features.storage_usage > 85
            quiet == ~cpu_spike /\ ~memory_pressure /\ ~high_risk /\ ~storage_full
        IN /\ calc.out # <<>>
           /\ Types(calc.out) = <<"maintain_baseline">> <=> quiet
           /\ ~quiet =>
                Types(calc.out) =
                      (IF cpu_spike THEN <<"scale_deployment">> ELSE <<>>)
                   \o (IF memory_pressure THEN <<"tune_memory_limits">> ELSE <<>>)
                   \o (IF high_risk THEN <<"proactive_scaling">> ELSE <<>>)
                   \o (IF storage_full THEN <<"storage_optimization">> ELSE <<>>)

\* all four rules match on anomalies that do not come in the rules' order
C16_Witness ==
    /\ Recommended
    /\ Types(calc.anomalies) = <<"memory_pressure", "cpu_spike">>
    /\ Types(calc.out) = <<"scale_deployment", "tune_memory_limits",
                           "proactive_scaling", "storage_optimization">>

\* ------------------------------------------------------------ SLA risk
MaxRecommendations == 4

\* int(x) of a float x = n / d: the fraction is cut off, towards zero
PyInt(n, d) == IF n >= 0 THEN n \div d ELSE -((-n) \div d)

\* compute_sla_risk, lines 27-38: [score, drivers] after the anomalies
RECURSIVE AnomalySeverity(_)
AnomalySeverity(anomalies) ==
    IF anomalies = <<>> THEN [score |-> 0, drivers |-> <<>>]
    ELSE LET anomaly == anomalies[Len(anomalies)]
             before == AnomalySeverity(SubSeq(anomalies, 1, Len(anomalies) - 1))
         IN IF anomaly.severity = "critical"
            THEN [score |-> before.score + 25,
                  drivers |-> Append(before.drivers,
                                     "Critical anomaly active: " \o anomaly.type)]
            ELSE IF anomaly.severity = "high"
            THEN [score |-> before.score + 15,
                  drivers |-> Append(before.drivers,
                                     "High anomaly active: " \o anomaly.type)]
            ELSE IF anomaly.severity = "warning"
            THEN [score |-> before.score + 8, drivers |-> before.drivers]
            ELSE before

\* compute_sla_risk, line 57
CriticalRecoCount(recommendations) ==
    Cardinality({i \in DOMAIN recommendations : recommendations[i].priority = "critical"})

\* variant: the score is returned as it was summed
Unclamped(score) == score

\* compute_sla_risk, line 62
ClampScore(score) == Max(0, Min(100, score))

\* variant: the level follows the score alone
RiskLevelByScore(score, forecast_risk, anomaly_severity_score) ==
    IF score >= 85 THEN "critical"
    ELSE IF score >= 65 THEN "high"
    ELSE IF score >= 40 THEN "moderate"
    ELSE "low"

\* compute_sla_risk, lines 64-71
RiskLevel(score, forecast_risk, anomaly_severity_score) ==
    IF score >= 85 \/ (forecast_risk = "high" /\ anomaly_severity_score >= 25)
    THEN "critical"
    ELSE IF score >= 65 THEN "high"
    ELSE IF score >= 40 THEN "moderate"
    ELSE "low"

\* compute_sla_risk, of the fields of its result that come from the score;
\* confidence is in hundredths
\* datetime.isoformat() of a time of day given in minutes: "HH:MM"
IsoTime(m) ==
    <<DigitChar((m \div 600) % 10), DigitChar((m \div 60) % 10), ":",
      DigitChar((m % 60) \div 10), DigitChar(m % 10)>>

IsDigit(c) == \E i \in 1..10 : Digits[i] = c

\* datetime.fromisoformat() accepts the text: two digit fields in range, else ValueError
IsIsoTime(s) ==
    /\ Len(s) = 5
    /\ s[3] = ":"
    /\ \A i \in {1, 2, 4, 5} : IsDigit(s[i])
    /\ DigitValue(s[1]) * 10 + DigitValue(s[2]) < 24
    /\ DigitValue(s[4]) < 6

\* datetime.fromisoformat() of an accepted text, in minutes
FromIsoTime(s) ==
    (DigitValue(s[1]) * 10 + DigitValue(s[2])) * 60
    + DigitValue(s[4]) * 10 + DigitValue(s[5])

\* features.get("timestamp") turned into a datetime: now() when absent or unparsable
CurrentTs(features, now) ==
    IF "timestamp" \in DOMAIN features /\ IsIsoTime(features.timestamp)
    THEN FromIsoTime(features.timestamp)
    ELSE now

\* a missing peak_time is None (TypeError), an unparsable one a ValueError: both give 60
_parse_time_to_impact_minutes(forecast, current_ts) ==
    IF "peak_time" \in DOMAIN forecast /\ IsIsoTime(forecast.peak_time)
    THEN Max(0, FromIsoTime(forecast.peak_time) - current_ts)
    ELSE 60

ImpactUncapped(risk_level, time_to_impact) == time_to_impact

ImpactCapped(risk_level, time_to_impact) ==
    IF risk_level \in {"high", "critical"} /\ time_to_impact > 120
    THEN 120
    ELSE time_to_impact

compute_sla_risk(features, anomalies, forecast, recommendations, now) ==
    LET forecast_peak == forecast.predicted_peak
        forecast_risk == forecast.risk_level
        severity == AnomalySeverity(anomalies)
        critical_reco_count == CriticalRecoCount(recommendations)
        summed == PyInt(features.cpu_usage * 20, 100)
                  + PyInt(features.memory_usage * 18, 100)
                  + PyInt(features.storage_usage * 8, 100)
                  + severity.score
                  + (IF forecast_risk = "high" THEN 20
                     ELSE IF forecast_risk = "moderate" THEN 10 ELSE 0)
                  + (IF forecast_peak >= 95 THEN 12 ELSE 0)
                  + (IF critical_reco_count # 0 THEN Min(critical_reco_count * 4, 12)
                     ELSE 0)
        drivers == severity.drivers
                   \o (IF forecast_risk = "high" THEN <<"CPU forecast peak high">>
                       ELSE IF forecast_risk = "moderate"
                       THEN <<"CPU forecast peak moderate">> ELSE <<>>)
                   \o (IF forecast_peak >= 95 THEN <<"Forecast peak exceeds 95%">>
                       ELSE <<>>)
                   \o (IF critical_reco_count # 0
                       THEN <<"Critical recommendations generated">> ELSE <<>>)
        score == ClampScore(summed)
        confidence == 72 + (IF anomalies # <<>> THEN 10 ELSE 0)
                         + (IF forecast_risk \in {"high", "moderate"} THEN 8 ELSE 0)
                         + (IF Len(drivers) >= 3 THEN 5 ELSE 0)
        risk_level == RiskLevel(score, forecast_risk, severity.score)
        time_to_impact ==
            _parse_time_to_impact_minutes(forecast, CurrentTs(features, now))
    IN [risk_score |-> score,
        risk_level |-> risk_level,
        time_to_impact_minutes |-> ImpactCapped(risk_level, time_to_impact),
        drivers    |-> IF drivers = <<>>
                       THEN <<"No major saturation or anomaly drivers detected">>
                       ELSE drivers,
        confidence |-> Max(50, Min(97, confidence))]

\* n recommendations of critical priority
CriticalRecommendations(n) ==
    [i \in 1..n |-> Recommendation("proactive_scaling", "critical", "deployment/api",
                                   "reason", "0.87", "impact")]

\* recommendation lists with up to n critical ones, alone or after one that is not
RecommendationLists(n) ==
    {CriticalRecommendations(k) : k \in 0..n}
    \cup {<<Recommendation("scale_deployment", "high", "deployment/api", "reason",
                           "0.88", "impact")>> \o CriticalRecommendations(k) : k \in 0..n}

InitRisk ==
    /\ InitIdle
    /\ calc \in {[op |-> "compute_sla_risk", done |-> FALSE,
                  features |-> Feature(cpu, mem, storage, 40),
                  anomalies |-> a, forecast |-> Forecast(level, peak),
                  recommendations |-> recs, now |-> 0, out |-> <<>>] :
                    cpu \in {0, 92, 100}, mem \in {0, 90, 100}, storage \in {0, 75},
                    a \in SeqsUpTo({Anomaly("cpu_spike", s) : s \in Severities},
                                   MaxAnomalies),
                    level \in ForecastRiskLevels, peak \in {94, 95},
                    recs \in RecommendationLists(MaxRecommendations)}

ComputeSlaRisk ==
    /\ calc.op = "compute_sla_risk"
    /\ ~calc.done
    /\ calc' = [calc EXCEPT !.done = TRUE,
                            !.out = compute_sla_risk(calc.features, calc.anomalies,
                                        calc.forecast, calc.recommendations,
                                        calc.now)]
    /\ UNCHANGED idleVars

SpecRisk == InitRisk /\ [][ComputeSlaRisk]_vars

RiskComputed == calc.op = "compute_sla_risk" /\ calc.done

\* the number of items of a sequence that satisfy Test
Count(items, Test(_)) == Cardinality({i \in DOMAIN items : Test(items[i])})

\* 25 per critical, 15 per high and 8 per warning anomaly
SeverityPoints(anomalies) ==
    25 * Count(anomalies, LAMBDA a : a.severity = "critical")
    + 15 * Count(anomalies, LAMBDA a : a.severity = "high")
    + 8 * Count(anomalies, LAMBDA a : a.severity = "warning")

\* C19: compute_sla_risk classifies the risk level as critical iff score >= 85 or
\* (forecast risk is high and anomaly_severity_score >= 25), else high iff score
\* >= 65, else moderate iff score >= 40, else low, where anomaly_severity_score
\* adds 25 per critical, 15 per high and 8 per warning anomaly
C19_RiskLevelThresholds ==
    RiskComputed =>
        LET score == calc.out.risk_score
            points == SeverityPoints(calc.anomalies)
            critical == score >= 85
                        \/ (calc.forecast.risk_level = "high" /\ points >= 25)
        IN calc.out.risk_level =
             IF critical THEN "critical"
             ELSE IF score >= 65 THEN "high"
             ELSE IF score >= 40 THEN "moderate"
             ELSE "low"

\* critical on a score below 65, through a high forecast and one critical anomaly
C19_Witness ==
    /\ RiskComputed
    /\ calc.out.risk_score < 65
    /\ calc.forecast.risk_level = "high"
    /\ Len(calc.anomalies) = 1
    /\ calc.anomalies[1].severity = "critical"
    /\ calc.out.risk_level = "critical"

\* the sum the score is cut from
RawScore ==
    ((calc.features.cpu_usage * 20) \div 100)
    + ((calc.features.memory_usage * 18) \div 100)
    + ((calc.features.storage_usage * 8) \div 100)
    + SeverityPoints(calc.anomalies)
    + (IF calc.forecast.risk_level = "high" THEN 20
       ELSE IF calc.forecast.risk_level = "moderate" THEN 10 ELSE 0)
    + (IF calc.forecast.predicted_peak >= 95 THEN 12 ELSE 0)
    + Min(4 * Count(calc.recommendations, LAMBDA r : r.priority = "critical"), 12)

\* C20: risk_score = min(100, max(0, floor(cpu*0.20) + floor(memory*0.18) +
\* floor(storage*0.08) + anomaly_severity_score + (20 if forecast risk is high, 10
\* if moderate) + (12 if predicted_peak >= 95) + min(4 x number of
\* critical-priority recommendations, 12))), for whole-number metrics
C20_RiskScoreFormula ==
    RiskComputed => calc.out.risk_score = Min(100, Max(0, RawScore))

\* the metrics of the test (92, 90, 75) with four critical recommendations: the
\* sum is above 100 and the score is cut to 100
C20_Witness ==
    /\ RiskComputed
    /\ calc.features.cpu_usage = 92
    /\ calc.features.memory_usage = 90
    /\ calc.features.storage_usage = 75
    /\ RawScore > 100
    /\ calc.out.risk_score = 100
    /\ Count(calc.recommendations, LAMBDA r : r.priority = "critical") = 4

\* ------------------------------------------------------------ alert generation
\* the longest recommendation list of an analysis result handed to the engine
MaxItems == 2

\* an Alert as generate_alerts builds one: id "", status active, source ai
BuiltAlert(type, severity, title, message, entity, mode, explanation, meta, now) ==
    [id          |-> "",
     type        |-> type,
     severity    |-> severity,
     status      |-> "active",
     title       |-> title,
     message     |-> message,
     source      |-> "ai",
     created_at  |-> IsoFormat(now),
     updated_at  |-> IsoFormat(now),
     fingerprint |-> _fingerprint(type, entity, mode),
     entity      |-> entity,
     explanation |-> explanation,
     meta        |-> meta]

\* _severity_for_anomaly
_severity_for_anomaly(anomaly) ==
    IF anomaly.severity \in {"critical", "high"} THEN "critical"
    ELSE IF anomaly.severity = "warning" THEN "warning"
    ELSE "info"

\* generate_alerts, lines 32-53: the alerts of the anomalies
RECURSIVE AnomalyAlerts(_, _, _)
AnomalyAlerts(anomalies, mode, now) ==
    IF anomalies = <<>> THEN <<>>
    ELSE LET anomaly == anomalies[1]
             rest == AnomalyAlerts(Tail(anomalies), mode, now)
         IN IF anomaly.severity \notin {"critical", "high"} THEN rest
            ELSE <<BuiltAlert(anomaly.type, _severity_for_anomaly(anomaly),
                              "Anomaly detected: " \o anomaly.type,
                              anomaly.explanation, ClusterEntity, mode,
                              DictGet(anomaly, "explanation_detail", "None"),
                              [confidence |-> DictGet(anomaly, "confidence", "0.7")],
                              now)>> \o rest

\* generate_alerts, lines 71-76
SlaRiskExplanation ==
    [summary |-> "SLA risk derived from saturation, anomalies, and forecast.",
     signals |-> <<>>,
     logic |-> <<"weighted_risk_scoring">>,
     confidence_reason |-> "Multiple AI subsystems agree on elevated risk"]

\* generate_alerts, lines 55-79
SlaRiskAlerts(sla_risk, mode, now) ==
    LET risk_level == sla_risk.risk_level
    IN IF risk_level \in {"high", "critical"}
       THEN <<BuiltAlert("sla_risk",
                         IF risk_level = "critical" THEN "critical" ELSE "warning",
                         "SLA risk is " \o risk_level,
                         "SLA risk score " \o ToString(sla_risk.risk_score)
                             \o " with impact in "
                             \o ToString(sla_risk.time_to_impact_minutes) \o " minutes",
                         ClusterEntity, mode, SlaRiskExplanation,
                         [drivers |-> sla_risk.drivers,
                          confidence |-> sla_risk.confidence], now)>>
       ELSE <<>>

\* variant: the forecast alert does not look at the time to impact
ImpactIsNearWhenever(forecast_risk, tti) == forecast_risk \in {"high", "critical"}

\* generate_alerts, line 83
ImpactIsNear(forecast_risk, tti) == forecast_risk \in {"high", "critical"} /\ tti <= 60

\* generate_alerts, lines 81-101
ForecastRiskAlerts(forecast, sla_risk, mode, now) ==
    LET forecast_risk == forecast.risk_level
        tti == sla_risk.time_to_impact_minutes
    IN IF ImpactIsNear(forecast_risk, tti)
       THEN <<BuiltAlert("forecast_risk",
                         IF forecast_risk = "critical" THEN "critical" ELSE "warning",
                         "Near-term load impact forecast",
                         "Forecast peak " \o ToString(forecast.predicted_peak)
                             \o "% in <= " \o ToString(tti) \o " minutes",
                         ClusterEntity, mode,
                         DictGet(forecast, "explanation_detail", "None"),
                         [peak_time |-> DictGet(forecast, "peak_time", "None")],
                         now)>>
       ELSE <<>>

SecurityTypes == {"security_hardening", "security", "security_policy"}

\* generate_alerts, lines 103-127: the alerts of the recommendations
RECURSIVE SecurityAlerts(_, _, _)
SecurityAlerts(recommendations, mode, now) ==
    IF recommendations = <<>> THEN <<>>
    ELSE LET rec == recommendations[1]
             rest == SecurityAlerts(Tail(recommendations), mode, now)
         IN IF rec.priority # "critical" \/ rec.type \notin SecurityTypes THEN rest
            ELSE <<BuiltAlert("critical_security_recommendation", "critical",
                              "Critical security recommendation", rec.reason,
                              <<(<<"target", rec.target>>)>>, mode,
                              DictGet(rec, "explanation_detail", "None"),
                              [recommendation_type |-> rec.type], now)>> \o rest

\* ALERT_STORE.upsert_alert for each alert of todo in turn; generated collects
\* what the store returned
RECURSIVE UpsertEach(_, _, _)
UpsertEach(store, todo, now) ==
    IF todo = <<>> THEN store
    ELSE LET r == upsert_alert(store.alerts, store.index, store.seq, now, todo[1])
         IN UpsertEach([alerts |-> r.alerts, index |-> r.index, seq |-> r.seq,
                        issued |-> store.issued \o r.issued,
                        generated |-> Append(store.generated, r.ret)],
                       Tail(todo), now)

\* generate_alerts: the alerts it hands to the store, and the store after them
generate_alerts(ai_result, mode, s, index, seq, now) ==
    LET todo == AnomalyAlerts(ai_result.anomalies, mode, now)
                \o SlaRiskAlerts(ai_result.sla_risk, mode, now)
                \o ForecastRiskAlerts(ai_result.forecast, ai_result.sla_risk, mode, now)
                \o SecurityAlerts(ai_result.recommendations, mode, now)
        after == UpsertEach([alerts |-> s, index |-> index, seq |-> seq,
                             issued |-> <<>>, generated |-> <<>>], todo, now)
    IN [upserted |-> todo, alerts |-> after.alerts, index |-> after.index,
        seq |-> after.seq, issued |-> after.issued, ret |-> after.generated]

\* a result of compute_sla_risk
SlaRisk(risk_score, risk_level, time_to_impact_minutes) ==
    [risk_score |-> risk_score, risk_level |-> risk_level,
     time_to_impact_minutes |-> time_to_impact_minutes,
     drivers |-> <<"Critical anomaly active: cpu_spike">>, confidence |-> "0.9"]

SlaRiskLevels == {"low", "moderate", "high", "critical"}

\* the anomalies, forecasts and recommendations of the analysis results
ResultAnomalies ==
    {Anomaly("cpu_spike", "critical"), Anomaly("memory_pressure", "high"),
     Anomaly("cpu_spike", "warning"), Anomaly("network_spike", "info")}

ResultRecommendations ==
    {Recommendation("security_hardening", "critical", "deployment/api",
                    "Harden security policy", "0.91", "Reduce breach risk"),
     Recommendation("security_policy", "high", "cluster/all",
                    "Review security policy", "0.8", "Reduce breach risk"),
     Recommendation("proactive_scaling", "critical", "deployment/api",
                    "Forecast peak at 96%", "0.87", "Prevents SLA breach")}

AiResults ==
    {[anomalies |-> a, forecast |-> Forecast(f, 93), recommendations |-> r,
      sla_risk |-> SlaRisk(88, level, tti)] :
        a \in SeqsUpTo(ResultAnomalies, MaxAnomalies),
        f \in ForecastRiskLevels \cup {"critical"},
        r \in SeqsUpTo(ResultRecommendations, MaxItems),
        level \in SlaRiskLevels, tti \in {60, 61}}

InitEngine ==
    /\ InitIdle
    /\ calc \in {[op |-> "generate_alerts", done |-> FALSE, ai_result |-> result,
                  mode |-> "demo", upserted |-> <<>>, out |-> <<>>] :
                    result \in AiResults}

GenerateAlerts ==
    /\ calc.op = "generate_alerts"
    /\ ~calc.done
    /\ LET r == generate_alerts(calc.ai_result, calc.mode, alerts, fingerprint_index,
                                sequence, clock)
       IN /\ alerts' = r.alerts
          /\ fingerprint_index' = r.index
          /\ sequence' = r.seq
          /\ issued' = issued \o r.issued
          /\ calc' = [calc EXCEPT !.done = TRUE, !.upserted = r.upserted,
                                  !.out = r.ret]
    /\ UNCHANGED <<clock, ops, streak, last, probe, tasks, running, auditVars>>

SpecEngine == InitEngine /\ [][GenerateAlerts]_vars

Generated == calc.op = "generate_alerts" /\ calc.done

\* one x for each item of items that satisfies Test
RECURSIVE OnePer(_, _, _)
OnePer(items, Test(_), x) ==
    IF items = <<>> THEN <<>>
    ELSE (IF Test(items[1]) THEN <<x>> ELSE <<>>) \o OnePer(Tail(items), Test, x)

\* C15: for any analysis result, generate_alerts upserts exactly one alert per
\* anomaly whose severity is high or critical, one sla_risk alert iff the SLA
\* risk level is high or critical, one forecast_risk alert iff the forecast risk
\* level is high or critical and time_to_impact_minutes <= 60, and one
\* critical_security_recommendation alert per critical-priority recommendation
\* of a security type; it upserts nothing else
C15_GeneratedAlertsFollowTheRules ==
    Generated =>
        LET result == calc.ai_result
            severe == SelectSeq(result.anomalies,
                                LAMBDA a : a.severity \in {"high", "critical"})
        IN /\ Types(calc.upserted) =
                  Types(severe)
               \o (IF result.sla_risk.risk_level \in {"high", "critical"}
                   THEN <<"sla_risk">> ELSE <<>>)
               \o (IF /\ result.forecast.risk_level \in {"high", "critical"}
                      /\ result.sla_risk.time_to_impact_minutes <= 60
                   THEN <<"forecast_risk">> ELSE <<>>)
               \o OnePer(result.recommendations,
                         LAMBDA r : r.priority = "critical" /\ r.type \in SecurityTypes,
                         "critical_security_recommendation")
           /\ Len(calc.out) = Len(calc.upserted)
           /\ \A i \in DOMAIN calc.out :
                /\ calc.out[i].type = calc.upserted[i].type
                /\ calc.out[i].id \in AlertIds(alerts)

\* a result that brings about every kind of alert, among items that bring none
C15_Witness ==
    /\ Generated
    /\ Types(calc.ai_result.anomalies) = <<"cpu_spike", "cpu_spike">>
    /\ Len(calc.ai_result.recommendations) = 2
    /\ Types(calc.upserted) = <<"cpu_spike", "sla_risk", "forecast_risk",
                                "critical_security_recommendation">>
    /\ Len(alerts) = 4

\* ---------------------------------------------------------------------------
\* The SLA risk result: time to impact, drivers, confidence (SpecRiskTimes)
\* ---------------------------------------------------------------------------

\* peak_time of a forecast: absent, not a time, out of range, before now, near, far
PeakTimes ==
    {<<>>, <<"s", "o", "o", "n">>, <<"2", "4", ":", "0", "0">>,
     IsoTime(590), IsoTime(630), IsoTime(720), IsoTime(780)}

\* the timestamp of the features: 10:00, or text that is not a time
Timestamps == {IsoTime(600), <<"n", "o", "w">>}

\* datetime.now() when the timestamp is absent or unparsable: 10:00 or 11:40
NowMinutes == {600, 700}

WithKey(d, k, present, v) == IF present THEN DictSet(d, k, v) ELSE d

InitRiskTimes ==
    /\ InitIdle
    /\ calc \in {[op |-> "compute_sla_risk", done |-> FALSE,
                  features |-> WithKey(Feature(cpu, cpu, 75, 40), "timestamp",
                                       has_ts, ts),
                  anomalies |-> a,
                  forecast |-> WithKey(Forecast(level, peak), "peak_time",
                                       peak_time # <<>>, peak_time),
                  recommendations |-> recs, now |-> now, out |-> <<>>] :
                    cpu \in {0, 100}, has_ts \in BOOLEAN, ts \in Timestamps,
                    a \in SeqsUpTo({Anomaly("cpu_spike", s) :
                                       s \in {"warning", "critical"}}, MaxAnomalies),
                    level \in ForecastRiskLevels, peak \in {94, 95},
                    peak_time \in PeakTimes,
                    recs \in {CriticalRecommendations(k) : k \in 0..1},
                    now \in NowMinutes}

SpecRiskTimes == InitRiskTimes /\ [][ComputeSlaRisk]_vars

\* none of the rules of compute_sla_risk that name a driver applies
NoDriverApplies ==
    /\ \A i \in DOMAIN calc.anomalies :
           calc.anomalies[i].severity \notin {"critical", "high"}
    /\ calc.forecast.risk_level \notin {"high", "moderate"}
    /\ calc.forecast.predicted_peak < 95
    /\ \A i \in DOMAIN calc.recommendations :
           calc.recommendations[i].priority # "critical"

\* C21: every result of compute_sla_risk is well formed: risk_score is in 0..100,
\* time_to_impact_minutes is at least 0 and at most 120 whenever risk_level is high
\* or critical, drivers is never empty and holds the single sentinel string when no
\* driver applied, and confidence is within [0.5, 0.97] (kept in hundredths).
C21_RiskResultIsWellFormed ==
    RiskComputed =>
        /\ calc.out.risk_score \in 0..100
        /\ calc.out.risk_level \in {"low", "moderate", "high", "critical"}
        /\ calc.out.time_to_impact_minutes >= 0
        /\ calc.out.risk_level \in {"high", "critical"}
              => calc.out.time_to_impact_minutes <= 120
        /\ calc.out.drivers # <<>>
        /\ NoDriverApplies
              => calc.out.drivers = <<"No major saturation or anomaly drivers detected">>
        /\ calc.out.confidence \in 50..97

\* a high or critical result whose forecast peaks three hours after the timestamp,
\* so that the cap has acted
C21_Witness ==
    /\ RiskComputed
    /\ calc.out.risk_level \in {"high", "critical"}
    /\ "peak_time" \in DOMAIN calc.forecast
    /\ IsIsoTime(calc.forecast.peak_time)
    /\ FromIsoTime(calc.forecast.peak_time) - CurrentTs(calc.features, calc.now) > 120
    /\ calc.out.time_to_impact_minutes = 120

\* ---------------------------------------------------------------------------
\* Load forecasting (SpecForecast)
\*
\* CPU values are kept in tenths of a percent and the rounded results in
\* hundredths; the regression is computed in exact fractions over one common
\* denominator.
\* ---------------------------------------------------------------------------

\* the longest history followed
MaxSamples == 3

RECURSIVE SumSeq(_)
SumSeq(s) == IF s = <<>> THEN 0 ELSE s[1] + SumSeq(Tail(s))

Abs(x) == IF x < 0 THEN -x ELSE x

\* slope = slope_num / den and intercept = intercept_num / den
_linear_regression(values) ==
    LET n == Len(values)
        sx == SumSeq([i \in 1..n |-> i - 1])
        sy == SumSeq(values)
        sxy == n * SumSeq([i \in 1..n |-> (i - 1) * values[i]]) - sx * sy
        sxx == n * SumSeq([i \in 1..n |-> (i - 1) * (i - 1)]) - sx * sx
    IN IF n < 2
       THEN [slope_num |-> 0,
             intercept_num |-> IF n = 0 THEN 0 ELSE values[n], den |-> 1]
       ELSE [slope_num |-> n * sxy, intercept_num |-> sy * sxx - sxy * sx,
             den |-> n * sxx]

\* round(_clamp(num / den, 0.0, 100.0), 2) of a value in tenths, in hundredths
ClampRound(num, den) ==
    IF num <= 0 THEN 0
    ELSE IF num >= 1000 * den THEN 10000
    ELSE RoundDiv(10 * num, den)

\* slope > 0.5 / slope < -0.5, the slope in tenths per sample
TrendOfSteepSlopes(line) ==
    IF line.slope_num > 50 * line.den THEN "increasing"
    ELSE IF line.slope_num < -50 * line.den THEN "decreasing"
    ELSE "stable"

Trend(line) ==
    IF line.slope_num > 5 * line.den THEN "increasing"
    ELSE IF line.slope_num < -5 * line.den THEN "decreasing"
    ELSE "stable"

\* max(series, key=value): the first item of the greatest value
FirstPeak(series) ==
    series[CHOOSE i \in DOMAIN series :
              /\ \A j \in DOMAIN series : series[j].value <= series[i].value
              /\ \A j \in 1..(i - 1) : series[j].value < series[i].value]

forecast_load(history, points, interval_minutes, now) ==
    IF history = <<>>
    THEN [predicted_peak |-> 0, peak_time |-> IsoTime(now), trend |-> "stable",
          risk_level |-> "low", confidence |-> 60, forecast_series |-> <<>>]
    ELSE
    LET values == [i \in DOMAIN history |-> history[i].cpu_usage]
        n == Len(values)
        line == _linear_regression(values)
        base_ts == history[n].timestamp
        predicted_num(i) == line.intercept_num + line.slope_num * (n + i)
        width_num == 40 * line.den + Abs(line.slope_num)
        series == [i \in 1..points |->
                     [timestamp |-> IsoTime(base_ts + i * interval_minutes),
                      value |-> ClampRound(predicted_num(i), line.den),
                      lower_bound |->
                          ClampRound(Min(Max(predicted_num(i), 0), 1000 * line.den)
                                     - width_num, line.den),
                      upper_bound |->
                          ClampRound(Min(Max(predicted_num(i), 0), 1000 * line.den)
                                     + width_num, line.den)]]
        peak == IF series # <<>> THEN FirstPeak(series)
                ELSE [value |-> values[n] * 10, timestamp |-> IsoTime(base_ts)]
        predicted_peak == peak.value
        \* variance / 400 as a fraction: var_num / (40000 * n * n)
        var_num == n * SumSeq([i \in 1..n |-> values[i] * values[i]])
                   - SumSeq(values) * SumSeq(values)
        penalty_den == 40000 * n * n
        confidence_num == 90 * penalty_den - 100 * Min(var_num, penalty_den \div 4)
    IN [predicted_peak |-> predicted_peak,
        peak_time |-> peak.timestamp,
        trend |-> Trend(line),
        risk_level |-> IF predicted_peak >= 8500 THEN "high"
                       ELSE IF predicted_peak >= 7000 THEN "moderate"
                       ELSE "low",
        confidence |-> Max(60, Min(95, RoundDiv(confidence_num, penalty_den))),
        forecast_series |-> series]

\* a point of the history: the CPU usage in tenths, the time in minutes of the day
Sample(cpu_usage, timestamp) == [cpu_usage |-> cpu_usage, timestamp |-> timestamp]

\* 10, 12, 12.5, 15, 70, 72.5, 75 and 100 percent
SampleValues == {100, 120, 125, 150, 700, 725, 750, 1000}

\* samples taken every five minutes, the last one at 10:00
SampledHistory(values) ==
    [i \in DOMAIN values |-> Sample(values[i], 600 - 5 * (Len(values) - i))]

InitForecast ==
    /\ InitIdle
    /\ calc \in {[op |-> "forecast_load", done |-> FALSE,
                  history |-> SampledHistory(values), points |-> points,
                  out |-> <<>>] :
                    values \in SeqsUpTo(SampleValues, MaxSamples),
                    points \in {0, 1, 12}}

ForecastLoad ==
    /\ calc.op = "forecast_load"
    /\ ~calc.done
    /\ calc' = [calc EXCEPT !.done = TRUE,
                            !.out = forecast_load(calc.history, calc.points, 5, 600)]
    /\ UNCHANGED idleVars

SpecForecast == InitForecast /\ [][ForecastLoad]_vars

Forecasted == calc.op = "forecast_load" /\ calc.done

\* at least two samples, each at least 2.5 above the one before
RisingBySteps(history) ==
    /\ Len(history) >= 2
    /\ \A i \in 2..Len(history) :
           history[i].cpu_usage - history[i - 1].cpu_usage >= 25

\* C22: for every history of at least two samples whose CPU values rise by at least
\* 2.5 from each sample to the next, forecast_load returns the trend "increasing",
\* and its risk_level is "high" exactly when predicted_peak is at least 85.
C22_RisingHistoryForecast ==
    (Forecasted /\ RisingBySteps(calc.history)) =>
        /\ calc.out.trend = "increasing"
        /\ calc.out.risk_level = "high" <=> calc.out.predicted_peak >= 8500

\* a rising history was forecast, once below 85 and not high
C22_Witness ==
    /\ Forecasted
    /\ RisingBySteps(calc.history)
    /\ Len(calc.history) = MaxSamples
    /\ calc.points = 12
    /\ calc.out.predicted_peak < 8500
    /\ calc.out.risk_level # "high"

\* ---------------------------------------------------------------------------
\* Explanations (SpecExplain)
\*
\* The values and thresholds of the signals are kept in hundredths.
\* ---------------------------------------------------------------------------

Signal(name, value, threshold, contribution) ==
    [name |-> name, value |-> value, threshold |-> threshold,
     contribution |-> contribution]

\* explain_anomaly, lines 46-52
AnomalyConfidenceReason(confidence) ==
    IF confidence >= 90 THEN "Confidence boosted due to multiple signal agreement"
    ELSE IF confidence >= 75 THEN "Confidence moderate due to threshold breach"
    ELSE "Confidence conservative due to limited signal strength"

explain_anomaly(anomaly, features, history) ==
    LET cpu == 100 * features.cpu_usage
        mem == 100 * features.memory_usage
        net == 100 * features.network_io
        prev_cpu == IF history # <<>> THEN 100 * history[Len(history)].cpu_usage
                    ELSE cpu
        cpu_delta == cpu - prev_cpu
        baseline_net == IF history # <<>>
                        THEN RoundDiv(100 * SumNetwork(history), Len(history))
                        ELSE net
        anomaly_type == DictGet(anomaly, "type", "unknown")
        confidence == Hundredths(DictGet(anomaly, "confidence", "0.5"))
    IN [summary |-> DictGet(anomaly, "explanation", "Anomaly detected by rule engine"),
        signals |->
            IF anomaly_type = "cpu_spike"
            THEN <<Signal("cpu_usage", cpu, 8500, "high"),
                   Signal("cpu_delta", cpu_delta, 2000, "medium")>>
            ELSE IF anomaly_type = "memory_pressure"
            THEN <<Signal("memory_usage", mem, 9000, "high")>>
            ELSE IF anomaly_type = "network_spike"
            THEN <<Signal("network_io", net, RoundDiv(3 * baseline_net, 2), "high"),
                   Signal("network_baseline", baseline_net, baseline_net, "medium")>>
            ELSE <<Signal("unknown_signal", 0, 0, "low")>>,
        logic |->
            IF anomaly_type = "cpu_spike"
            THEN <<"cpu_usage > 85%", "delta(cpu_usage) > 20%">>
            ELSE IF anomaly_type = "memory_pressure" THEN <<"memory_usage > 90%">>
            ELSE IF anomaly_type = "network_spike" THEN <<"network_io > baseline * 1.5">>
            ELSE <<"rule_based_detection_triggered">>,
        confidence_reason |-> AnomalyConfidenceReason(confidence)]

\* explain_forecast: the peak in whole percent, the times as isoformat texts
explain_forecast(forecast_result, features, history) ==
    LET peak == DictGet(forecast_result, "predicted_peak", 0)
        tti == IF /\ "peak_time" \in DOMAIN forecast_result
                  /\ IsIsoTime(forecast_result.peak_time)
                  /\ "timestamp" \in DOMAIN features
                  /\ IsIsoTime(features.timestamp)
               THEN FromIsoTime(forecast_result.peak_time)
                    - FromIsoTime(features.timestamp)
               ELSE 60
    IN [summary |-> "Forecast trend is " \o DictGet(forecast_result, "trend", "stable")
                    \o " with " \o DictGet(forecast_result, "risk_level", "low")
                    \o " risk and peak at " \o ToString(peak) \o "%.",
        signals |-> <<Signal("current_cpu", 100 * features.cpu_usage, 7000, "medium"),
                      Signal("predicted_peak", 100 * peak, 8500,
                             IF peak >= 85 THEN "high" ELSE "medium")>>,
        logic |-> <<"linear_trend_forecast", "peak_based_risk_banding">>,
        confidence_reason |->
            "Confidence reflects history stability and trend consistency (TTI="
            \o ToString(Max(tti, 0)) \o "m)."]

\* variant: the cutoffs of explain_anomaly
RecommendationReasonByAnomalyCutoffs(confidence) ==
    IF confidence >= 90 THEN "High confidence due to direct anomaly-to-action mapping"
    ELSE IF confidence >= 75 THEN "Moderate confidence due to forecast corroboration"
    ELSE "Conservative confidence due to low urgency context"

\* explain_recommendation, lines 111-117
RecommendationConfidenceReason(confidence) ==
    IF confidence >= 88 THEN "High confidence due to direct anomaly-to-action mapping"
    ELSE IF confidence >= 75 THEN "Moderate confidence due to forecast corroboration"
    ELSE "Conservative confidence due to low urgency context"

explain_recommendation(reco, features, anomalies, forecast) ==
    LET rec_type == DictGet(reco, "type", "maintain_baseline")
        peak == DictGet(forecast, "predicted_peak", 0)
        high_anomaly_count ==
            Cardinality({i \in DOMAIN anomalies :
                           /\ "severity" \in DOMAIN anomalies[i]
                           /\ anomalies[i].severity \in {"high", "critical"}})
        confidence == Hundredths(DictGet(reco, "confidence", "0.7"))
    IN [summary |-> DictGet(reco, "reason",
                            "Recommendation generated from orchestration rules"),
        signals |-> <<Signal("high_anomaly_count", high_anomaly_count, 1,
                             IF high_anomaly_count # 0 THEN "high" ELSE "low"),
                      Signal("forecast_peak", 100 * peak, 8500,
                             IF peak >= 85 THEN "high" ELSE "medium")>>,
        logic |-> <<"recommendation_type=" \o rec_type,
                    "derived_from_anomalies_and_forecast">>,
        confidence_reason |-> RecommendationConfidenceReason(confidence)]

\* confidences around the cutoffs, as the engines write them
ConfidenceTexts == {FloatRepr(h) : h \in {50, 74, 75, 87, 88, 89, 90, 99}}

\* the item as it is, without its confidence, or with another one
WithConfidences(item) ==
    {item, [k \in DOMAIN item \ {"confidence"} |-> item[k]]}
    \cup {DictSet(item, "confidence", c) : c \in ConfidenceTexts}

ExplainedFeatures == {Feature(cpu, 91, 86, 100) : cpu \in {60, 95}}

ExplainedHistories == SeqsUpTo({Feature(30, 70, 40, net) : net \in {40, 60}}, MaxHistory)

ExplainedForecasts == {Forecast("low", 60), Forecast("high", 90)}

\* the recommendations of the engine for these inputs, each with its confidences
ExplainedRecommendations(f, h, forecast) ==
    LET recommendations == generate_recommendations(f, detect_anomalies(f, h), forecast)
    IN UNION {WithConfidences(recommendations[i]) : i \in DOMAIN recommendations}

InitExplain ==
    /\ InitIdle
    /\ calc \in
         {[op |-> "explain_anomaly", done |-> FALSE, item |-> item, features |-> f,
           history |-> h, out |-> <<>>] :
             item \in UNION {WithConfidences(Anomaly(type, "high")) :
                                type \in AnomalyTypes \cup {"unknown"}},
             f \in ExplainedFeatures, h \in ExplainedHistories}
         \cup
         UNION {{[op |-> "explain_recommendation", done |-> FALSE, item |-> item,
                  features |-> f, anomalies |-> detect_anomalies(f, h),
                  forecast |-> forecast, out |-> <<>>] :
                    item \in ExplainedRecommendations(f, h, forecast)} :
                  f \in ExplainedFeatures, h \in ExplainedHistories,
                  forecast \in ExplainedForecasts}

ExplainAnomaly ==
    /\ calc.op = "explain_anomaly"
    /\ ~calc.done
    /\ calc' = [calc EXCEPT !.done = TRUE,
                            !.out = explain_anomaly(calc.item, calc.features,
                                                    calc.history)]
    /\ UNCHANGED idleVars

ExplainRecommendation ==
    /\ calc.op = "explain_recommendation"
    /\ ~calc.done
    /\ calc' = [calc EXCEPT !.done = TRUE,
                            !.out = explain_recommendation(calc.item, calc.features,
                                        calc.anomalies, calc.forecast)]
    /\ UNCHANGED idleVars

NextExplain == ExplainAnomaly \/ ExplainRecommendation

SpecExplain == InitExplain /\ [][NextExplain]_vars

Explained(op) == calc.op = op /\ calc.done

\* the confidence the explanation read, in hundredths
ReadConfidence(default) == Hundredths(DictGet(calc.item, "confidence", default))

\* the tier of a confidence_reason: the three messages of each function
Tier(reason) ==
    IF reason \in {"Confidence boosted due to multiple signal agreement",
                   "High confidence due to direct anomaly-to-action mapping"}
    THEN "high"
    ELSE IF reason \in {"Confidence moderate due to threshold breach",
                        "Moderate confidence due to forecast corroboration"}
    THEN "moderate"
    ELSE IF reason \in {"Confidence conservative due to limited signal strength",
                        "Conservative confidence due to low urgency context"}
    THEN "conservative"
    ELSE "none"

TierByCutoffs(confidence, high, moderate) ==
    IF confidence >= high THEN "high"
    ELSE IF confidence >= moderate THEN "moderate"
    ELSE "conservative"

\* C24, as stated: for anomalies and for recommendations alike, confidence_reason is
\* the high-tier message iff confidence >= 0.9, the moderate-tier message iff
\* 0.75 <= confidence < 0.9, and the conservative-tier message otherwise.
C24_TiersCutAtNineTenths ==
    /\ Explained("explain_anomaly") =>
          Tier(calc.out.confidence_reason) = TierByCutoffs(ReadConfidence("0.5"), 90, 75)
    /\ Explained("explain_recommendation") =>
          Tier(calc.out.confidence_reason) = TierByCutoffs(ReadConfidence("0.7"), 90, 75)

\* C24, amended: for anomalies the tiers are cut at 0.9 and 0.75 (a missing
\* confidence counting as 0.5); for recommendations the high tier starts at 0.88:
\* high iff confidence >= 0.88, moderate iff 0.75 <= confidence < 0.88, conservative
\* otherwise (a missing confidence counting as 0.7).
C24_TiersOfEachExplanation ==
    /\ Explained("explain_anomaly") =>
          Tier(calc.out.confidence_reason) = TierByCutoffs(ReadConfidence("0.5"), 90, 75)
    /\ Explained("explain_recommendation") =>
          Tier(calc.out.confidence_reason) = TierByCutoffs(ReadConfidence("0.7"), 88, 75)

\* the scale_deployment recommendation as generate_recommendations writes it, of
\* confidence 0.88, explained with the high-tier message
C24_Witness ==
    /\ Explained("explain_recommendation")
    /\ calc.item.type = "scale_deployment"
    /\ "confidence" \in DOMAIN calc.item
    /\ calc.item.confidence = "0.88"
    /\ Tier(calc.out.confidence_reason) = "high"

\* ---------------------------------------------------------------------------
\* Feature extraction (SpecFeatures)
\*
\* A value of a payload is a record of its Python type; a float is kept in
\* thousandths, or is one of inf, -inf and nan; a text is a sequence of characters.
\* ---------------------------------------------------------------------------

NoneValue == [kind |-> "none"]

IntValue(n) == [kind |-> "int", v |-> n]

FloatValue(thousandths) == [kind |-> "float", v |-> thousandths, special |-> ""]

SpecialFloat(special) == [kind |-> "float", v |-> 0, special |-> special]

StrValue(text) == [kind |-> "str", text |-> text]

ListValue(len) == [kind |-> "list", len |-> len]

DictValue(items) == [kind |-> "dict", items |-> items]

DatetimeValue(minutes) == [kind |-> "datetime", v |-> minutes]

\* bool(value)
Truthy(value) ==
    CASE value.kind = "none" -> FALSE
      [] value.kind = "int" -> value.v # 0
      [] value.kind = "float" -> value.special # "" \/ value.v # 0
      [] value.kind = "str" -> value.text # <<>>
      [] value.kind = "list" -> value.len # 0
      [] value.kind = "dict" -> DOMAIN value.items # {}
      [] OTHER -> TRUE

\* mapping.get(key), None when the key is absent
Get(mapping, key) == DictGet(mapping.items, key, NoneValue)

UpperLetters ==
    <<"A", "B", "C", "D", "E", "F", "G", "H", "I", "J", "K", "L", "M",
      "N", "O", "P", "Q", "R", "S", "T", "U", "V", "W", "X", "Y", "Z">>

LowerLetters ==
    <<"a", "b", "c", "d", "e", "f", "g", "h", "i", "j", "k", "l", "m",
      "n", "o", "p", "q", "r", "s", "t", "u", "v", "w", "x", "y", "z">>

\* str.lower()
Lower(text) ==
    [i \in DOMAIN text |->
        IF \E j \in 1..26 : UpperLetters[j] = text[i]
        THEN LowerLetters[CHOOSE j \in 1..26 : UpperLetters[j] = text[i]]
        ELSE text[i]]

\* str.strip()
RECURSIVE Strip(_)
Strip(text) ==
    IF text = <<>> THEN text
    ELSE IF text[1] = " " THEN Strip(Tail(text))
    ELSE IF text[Len(text)] = " " THEN Strip(SubSeq(text, 1, Len(text) - 1))
    ELSE text

\* str.replace(",", "")
RemoveCommas(text) == SelectSeq(text, LAMBDA c : c # ",")

\* str.endswith(suffix)
EndsWith(text, suffix) ==
    /\ Len(text) >= Len(suffix)
    /\ SubSeq(text, Len(text) - Len(suffix) + 1, Len(text)) = suffix

DropLast(text, n) == SubSeq(text, 1, Len(text) - n)

RECURSIVE DigitsValue(_)
DigitsValue(text) ==
    IF text = <<>> THEN 0
    ELSE 10 * DigitsValue(DropLast(text, 1)) + DigitValue(text[Len(text)])

AllDigits(text) == \A i \in DOMAIN text : IsDigit(text[i])

\* float(text) of a stripped text: a sign, then inf, nan, or digits with at most
\* three decimals (exponents are not followed); ok is FALSE for a ValueError
ParseFloat(text) ==
    LET signed == text # <<>> /\ text[1] \in {"-", "+"}
        sign == IF text # <<>> /\ text[1] = "-" THEN -1 ELSE 1
        body == IF signed THEN Tail(text) ELSE text
        dots == {i \in DOMAIN body : body[i] = "."}
        dot == IF dots = {} THEN Len(body) + 1 ELSE CHOOSE i \in dots : TRUE
        whole == SubSeq(body, 1, dot - 1)
        decimals == SubSeq(body, dot + 1, Len(body))
        padded == decimals \o SubSeq(<<"0", "0", "0">>, 1, 3 - Len(decimals))
    IN IF body \in {<<"i", "n", "f">>, <<"i", "n", "f", "i", "n", "i", "t", "y">>}
       THEN [ok |-> TRUE,
             value |-> SpecialFloat(IF sign < 0 THEN "-inf" ELSE "inf")]
       ELSE IF body = <<"n", "a", "n">> THEN [ok |-> TRUE, value |-> SpecialFloat("nan")]
       ELSE IF /\ Cardinality(dots) <= 1
               /\ Len(whole) + Len(decimals) > 0
               /\ Len(decimals) <= 3
               /\ AllDigits(whole) /\ AllDigits(decimals)
       THEN [ok |-> TRUE,
             value |-> FloatValue(sign * (1000 * DigitsValue(whole)
                                          + DigitsValue(padded)))]
       ELSE [ok |-> FALSE, value |-> NoneValue]

\* a float times a multiplier of 1000 / divisor (the products followed are exact)
Times(value, factor, divisor) ==
    IF value.special # "" THEN value
    ELSE FloatValue((value.v * factor) \div divisor)

Suffixes == {<<"m", "b", "p", "s">>, <<"g", "b", "p", "s">>, <<"k", "b", "p", "s">>}

\* _to_float(value, default): default is a float
_to_float(value, default) ==
    IF value.kind = "int" THEN FloatValue(1000 * value.v)
    ELSE IF value.kind = "float" THEN value
    ELSE IF value.kind = "str"
    THEN LET cleaned == RemoveCommas(Lower(Strip(value.text)))
             suffixed == \E x \in Suffixes : EndsWith(cleaned, x)
             number == IF suffixed THEN Strip(DropLast(cleaned, 4)) ELSE cleaned
             plain == IF EndsWith(number, <<"%">>) THEN Strip(DropLast(number, 1))
                      ELSE number
             parsed == ParseFloat(Strip(plain))
         IN IF ~parsed.ok THEN default
            ELSE IF EndsWith(cleaned, <<"g", "b", "p", "s">>)
            THEN Times(parsed.value, 1000, 1)
            ELSE IF EndsWith(cleaned, <<"k", "b", "p", "s">>)
            THEN Times(parsed.value, 1, 1000)
            ELSE parsed.value
    ELSE default

\* int(x) of a float: [raised, v]
IntOfFloat(value) ==
    IF value.special = "nan" THEN [raised |-> "ValueError", v |-> 0]
    ELSE IF value.special # "" THEN [raised |-> "OverflowError", v |-> 0]
    ELSE [raised |-> "", v |-> PyInt(value.v, 1000)]

\* _to_int(value, default): only the ValueError of the text branch is caught
_to_int(value, default) ==
    IF value.kind = "int" THEN [raised |-> "", v |-> value.v]
    ELSE IF value.kind = "float" THEN IntOfFloat(value)
    ELSE IF value.kind = "str"
    THEN LET parsed == ParseFloat(Lower(Strip(value.text)))
             converted == IntOfFloat(parsed.value)
         IN IF ~parsed.ok \/ converted.raised = "ValueError"
            THEN [raised |-> "", v |-> default]
            ELSE converted
    ELSE [raised |-> "", v |-> default]

\* int(anomaly_count) of line 95: the override is taken as it comes
IntOf(value) ==
    IF value.kind = "int" THEN [raised |-> "", v |-> value.v]
    ELSE IF value.kind = "float" THEN IntOfFloat(value)
    ELSE IF value.kind = "str"
    THEN LET text == Strip(value.text)
             signed == text # <<>> /\ text[1] \in {"-", "+"}
             body == IF signed THEN Tail(text) ELSE text
         IN IF body # <<>> /\ AllDigits(body)
            THEN [raised |-> "",
                  v |-> (IF text[1] = "-" THEN -1 ELSE 1) * DigitsValue(body)]
            ELSE [raised |-> "ValueError", v |-> 0]
    ELSE [raised |-> "TypeError", v |-> 0]

\* max(0.0, x): nan and -inf lose against 0.0, inf wins
NonNegativeFloat(value) ==
    IF value.special \in {"nan", "-inf"} THEN FloatValue(0)
    ELSE IF value.special = "inf" THEN value
    ELSE FloatValue(Max(0, value.v))

Raised(error) == [raised |-> error]

\* source or {}, source.get("cluster_metrics") or {}
OrEmptyDict(value) == IF Truthy(value) THEN value ELSE DictValue(EmptyDict)

\* timestamp is a datetime in minutes or -1 for None; now is datetime.now()
extract_features(payload, anomalies_count, timestamp, now) ==
    LET source == OrEmptyDict(payload)
        cluster_metrics == OrEmptyDict(Get(source, "cluster_metrics"))
        metric(key) ==
            _to_float(Get(cluster_metrics, key),
                      _to_float(Get(source, key), FloatValue(0)))
        count_default == _to_int(Get(source, "active_anomalies"), 0)
        anomaly_count == IF anomalies_count.kind # "none" THEN IntOf(anomalies_count)
                         ELSE count_default
        source_timestamp == Get(source, "timestamp")
        resolved_timestamp ==
            IF timestamp # -1 THEN timestamp
            ELSE IF source_timestamp.kind = "datetime" THEN source_timestamp.v
            ELSE IF source_timestamp.kind = "str" /\ IsIsoTime(source_timestamp.text)
            THEN FromIsoTime(source_timestamp.text)
            ELSE now
    IN IF source.kind # "dict" \/ cluster_metrics.kind # "dict"
       THEN Raised("AttributeError")
       ELSE IF count_default.raised # "" THEN Raised(count_default.raised)
       ELSE IF anomaly_count.raised # "" THEN Raised(anomaly_count.raised)
       ELSE [raised |-> "",
             cpu_usage |-> NonNegativeFloat(metric("cpu_usage")),
             memory_usage |-> NonNegativeFloat(metric("memory_usage")),
             storage_usage |-> NonNegativeFloat(metric("storage_usage")),
             network_io |-> NonNegativeFloat(metric("network_io")),
             anomaly_count |-> Max(0, anomaly_count.v),
             timestamp |-> resolved_timestamp]

\* a dict of the keys whose value is given: absent stands for a key left out
Absent == [kind |-> "absent"]

DictOf(pairs) ==
    LET present == {i \in DOMAIN pairs : pairs[i][2] # Absent}
    IN DictValue([k \in {pairs[i][1] : i \in present} |->
                    pairs[CHOOSE i \in present : pairs[i][1] = k][2]])

\* values of a metric: numbers, texts with units, and what is not a number
MetricValues ==
    {Absent, IntValue(85), IntValue(-5), FloatValue(91500), SpecialFloat("nan"),
     StrValue(<<"8", "5", "%">>), StrValue(<<"1", ".", "2", " ", "G", "b", "p", "s">>),
     StrValue(<<"5", "0", "0", "k", "b", "p", "s">>),
     StrValue(<<"1", ",", "0", "0", "0">>), StrValue(<<"a", "b", "c">>),
     StrValue(<<"-", "i", "n", "f">>), ListValue(1)}

\* the cluster_metrics group: left out, empty, a mapping, or not a mapping
MetricGroups ==
    {Absent, NoneValue, ListValue(0), ListValue(2),
     StrValue(<<"c", "p", "u", "=", "1">>)}
    \cup {DictOf(<<(<<"cpu_usage", cpu>>)>>) : cpu \in MetricValues}

CountValues ==
    {Absent, IntValue(2), IntValue(-3), FloatValue(2700), SpecialFloat("nan"),
     StrValue(<<"4">>), StrValue(<<"i", "n", "f">>), StrValue(<<"n", "a", "n">>),
     StrValue(<<"m", "a", "n", "y">>), ListValue(1)}

CountOverrides == {NoneValue, IntValue(3), IntValue(-1), FloatValue(2700),
                   StrValue(<<"x">>)}

SourceTimestamps == {Absent, StrValue(IsoTime(600)), StrValue(<<"n", "o", "w">>),
                     DatetimeValue(610)}

Snapshots ==
    {NoneValue, DictValue(EmptyDict)}
    \cup {DictOf(<<(<<"cluster_metrics", group>>), <<"memory_usage", mem>>,
                   <<"active_anomalies", count>>, <<"timestamp", ts>>>>) :
            group \in MetricGroups,
            mem \in {Absent, IntValue(70), StrValue(<<"a", "b", "c">>)},
            count \in CountValues, ts \in SourceTimestamps}

InitFeatures ==
    /\ InitIdle
    /\ calc \in {[op |-> "extract_features", done |-> FALSE, source |-> source,
                  anomalies_count |-> override, timestamp |-> timestamp,
                  out |-> <<>>] :
                    source \in Snapshots, override \in CountOverrides,
                    timestamp \in {-1, 620}}

ExtractFeatures ==
    /\ calc.op = "extract_features"
    /\ ~calc.done
    /\ calc' = [calc EXCEPT !.done = TRUE,
                            !.out = extract_features(calc.source, calc.anomalies_count,
                                                     calc.timestamp, 630)]
    /\ UNCHANGED idleVars

SpecFeatures == InitFeatures /\ [][ExtractFeatures]_vars

Extracted == calc.op = "extract_features" /\ calc.done

NotNegative(value) == value.special = "inf" \/ (value.special = "" /\ value.v >= 0)

\* C25: extract_features never raises: for every snapshot (missing, empty, with
\* missing, non-numeric or wrongly typed fields, with a cluster_metrics group that
\* is not a mapping) and every anomaly-count override it returns a vector whose
\* cpu, memory, storage and network values are at least 0 and whose anomaly_count
\* is an integer at least 0.
C25_ExtractionNeverFails ==
    Extracted =>
        /\ calc.out.raised = ""
        /\ NotNegative(calc.out.cpu_usage)
        /\ NotNegative(calc.out.memory_usage)
        /\ NotNegative(calc.out.storage_usage)
        /\ NotNegative(calc.out.network_io)
        /\ calc.out.anomaly_count \in Nat

\* ---------------------------------------------------------------------------
\* The analysis pipeline (SpecPipeline)
\*
\* run_ai_analysis is followed on payloads of whole numbers. The extracted vectors
\* keep their floats; the engines get them in the units of their models: whole
\* percent for the detector, the recommendations, the risk and the explanations,
\* tenths for the forecast. The stages after the forecast read its peak in whole
\* percent: their comparisons are with whole thresholds (>= 85, >= 95), which the
\* dropped decimals do not change; the texts that quote the peak show it whole.
\* One run reads the wall clock once.
\* ---------------------------------------------------------------------------

\* the most runs followed from one starting store
MaxRuns == 2

\* a float of the extracted vector in whole units
Whole(value) == value.v \div 1000

\* the vector as the detector and the later stages read it
WholeVector(vector) ==
    [cpu_usage |-> Whole(vector.cpu_usage), memory_usage |-> Whole(vector.memory_usage),
     storage_usage |-> Whole(vector.storage_usage),
     network_io |-> Whole(vector.network_io)]

WholeEach(history) == [i \in DOMAIN history |-> WholeVector(history[i])]

\* the vector as the forecast reads it
SampleEach(history) ==
    [i \in DOMAIN history |->
        Sample(history[i].cpu_usage.v \div 100, history[i].timestamp)]

\* history[:-1]
AllButLast(history) == SubSeq(history, 1, Len(history) - 1)

\* point.get(key, default)
GetOr(mapping, key, default) == DictGet(mapping.items, key, default)

\* variant: the time of a point is always counted back from now
PointTimeFromNow(point, index, len, now) == now - (len - index) * 5

\* _build_history, lines 25-32: index counts from 0
PointTime(point, index, len, now) ==
    LET ts == Get(point, "timestamp")
    IN IF ts.kind = "str" /\ IsIsoTime(ts.text) THEN FromIsoTime(ts.text)
       ELSE now - (len - index) * 5

\* _build_history, lines 34-48
NormalizedPoint(current, point, index, len, now) ==
    LET point_ts == PointTime(point, index, len, now)
    IN extract_features(
           DictOf(<<(<<"cluster_metrics",
                       DictOf(<<(<<"cpu_usage",
                                   GetOr(point, "cpu_usage",
                                         GetOr(point, "value", current.cpu_usage))>>),
                                <<"memory_usage",
                                  GetOr(point, "memory_usage", current.memory_usage)>>,
                                <<"storage_usage",
                                  GetOr(point, "storage_usage", current.storage_usage)>>,
                                <<"network_io",
                                  GetOr(point, "network_io", current.network_io)>>>>)>>),
                    <<"active_anomalies",
                      GetOr(point, "anomaly_count", IntValue(current.anomaly_count))>>,
                    <<"timestamp", StrValue(IsoTime(point_ts))>>>>),
           NoneValue, point_ts, now)

\* current with another cpu_usage and timestamp
Earlier(current, cpu_less, minutes) ==
    [current EXCEPT !.cpu_usage = NonNegativeFloat(
                                      IF @.special # "" THEN @
                                      ELSE FloatValue(@.v - 1000 * cpu_less)),
                    !.timestamp = @ - minutes]

_build_history(current, history, now) ==
    IF history # <<>>
    THEN [i \in DOMAIN history |->
             NormalizedPoint(current, history[i], i - 1, Len(history), now)]
    ELSE <<Earlier(current, 12, 10), Earlier(current, 6, 5), current>>

\* int(x * 0.22), int(x * 0.2) and int(x * 0.1) are the exact floors on whole x
_health_score(features, anomaly_count, risk_level) ==
    LET score == 100 - PyInt(features.cpu_usage * 22, 100)
                     - PyInt(features.memory_usage * 20, 100)
                     - PyInt(features.storage_usage * 10, 100)
                     - Min(anomaly_count * 8, 35)
                     - (IF risk_level = "high" THEN 10
                        ELSE IF risk_level = "moderate" THEN 5
                        ELSE IF risk_level = "critical" THEN 15 ELSE 0)
    IN Max(0, Min(100, score))

_alerts_summary(s, now_iso) ==
    LET active == list_alerts(s, "active")
    IN [active |-> Len(active),
        critical |-> Cardinality({i \in DOMAIN active : active[i].severity = "critical"}),
        updated_at |-> now_iso]

AGENT_VERSION == "1.0"

\* the view of a vector handed to the explanations and to the risk
View(vector) ==
    WholeVector(vector) @@ [timestamp |-> IsoTime(vector.timestamp)]

\* the forecast as the later stages read it
PeakInPercent(forecast) == [forecast EXCEPT !.predicted_peak = @ \div 100]

\* an assignment: the value is computed once, then the statements after it read
\* it under its name
Assigned(value, Rest(_)) == CHOOSE result \in {Rest(name) : name \in {value}} : TRUE

\* run_ai_analysis on the store (s, index, seq) at the time now, elapsed_ms being
\* what perf_counter measured; detector_history and forecast_input record what
\* lines 107 and 108 handed to the engines
run_ai_analysis(metrics_payload, mode, history_payload, s, index, seq, now, elapsed_ms) ==
    LET failing(e) == [raised |-> e, alerts |-> s, index |-> index, seq |-> seq,
                       issued |-> <<>>]
    IN
    Assigned(extract_features(metrics_payload, NoneValue, -1, now),
             LAMBDA current_features :
    IF current_features.raised # "" THEN failing(current_features.raised) ELSE
    Assigned(_build_history(current_features, history_payload, now), LAMBDA history :
    IF \E i \in DOMAIN history : history[i].raised # ""
    THEN failing(CHOOSE e \in {history[i].raised : i \in DOMAIN history} : e # "") ELSE
    Assigned(detect_anomalies(WholeVector(current_features),
                              WholeEach(AllButLast(history))), LAMBDA detected :
    Assigned(PeakInPercent(forecast_load(SampleEach(history), 12, 5, now)),
             LAMBDA forecast_result :
    Assigned(generate_recommendations(WholeVector(current_features), detected,
                                      forecast_result), LAMBDA generated :
    Assigned(View(current_features), LAMBDA features_view :
    Assigned([i \in DOMAIN AllButLast(history) |-> View(history[i])],
             LAMBDA history_view :
    Assigned([i \in DOMAIN detected |->
                 DictSet(detected[i], "explanation_detail",
                         explain_anomaly(detected[i], features_view, history_view))],
             LAMBDA anomalies :
    Assigned(DictSet(forecast_result, "explanation_detail",
                     explain_forecast(forecast_result, features_view, history_view)),
             LAMBDA forecast :
    Assigned([i \in DOMAIN generated |->
                 DictSet(generated[i], "explanation_detail",
                         explain_recommendation(generated[i], features_view, anomalies,
                                                forecast))],
             LAMBDA recommendations :
    Assigned(compute_sla_risk(features_view, anomalies, forecast, recommendations, now),
             LAMBDA sla_risk :
    Assigned(_health_score(WholeVector(current_features), Len(anomalies),
                           sla_risk.risk_level), LAMBDA health :
    Assigned(generate_alerts([anomalies |-> anomalies, forecast |-> forecast,
                              recommendations |-> recommendations,
                              sla_risk |-> sla_risk], mode, s, index, seq, now),
             LAMBDA stored :
        [raised |-> "",
         detector_history |-> AllButLast(history),
         forecast_input |-> history,
         upserted |-> stored.upserted,
         alerts |-> stored.alerts, index |-> stored.index, seq |-> stored.seq,
         issued |-> stored.issued,
         out |-> [health_score |-> health,
                  anomalies |-> anomalies,
                  forecast |-> forecast,
                  recommendations |-> recommendations,
                  sla_risk |-> sla_risk,
                  alerts_summary |-> _alerts_summary(stored.alerts, IsoTime(now)),
                  ai_meta |-> [mode |-> mode, analysis_time_ms |-> elapsed_ms,
                               agent_version |-> AGENT_VERSION]]])))))))))))))

\* the wall clock when the first run may start, in minutes, and the time that may
\* pass before a later run
StartMinute == 30

WaitMinutes == 15

\* a point of a history payload; ts < 0 leaves the timestamp out
Point(cpu, mem, storage, net, count, ts) ==
    DictOf(<<(<<"cpu_usage", IntValue(cpu)>>), <<"memory_usage", IntValue(mem)>>,
             <<"storage_usage", IntValue(storage)>>, <<"network_io", IntValue(net)>>,
             <<"anomaly_count", IntValue(count)>>,
             <<"timestamp", IF ts < 0 THEN Absent ELSE StrValue(IsoTime(ts))>>>>)

\* no history; three points every five minutes up to five minutes before the
\* start, with and without their timestamps; one point
HistoryPayloads ==
    {<<>>,
     <<Point(60, 82, 50, 40, 0, StartMinute - 15),
       Point(68, 84, 51, 45, 0, StartMinute - 10),
       Point(75, 86, 52, 50, 1, StartMinute - 5)>>,
     <<Point(60, 82, 50, 40, 0, -1), Point(68, 84, 51, 45, 0, -1),
       Point(75, 86, 52, 50, 1, -1)>>,
     <<Point(60, 82, 50, 40, 0, StartMinute - 5)>>}

MetricsPayloads ==
    {DictOf(<<(<<"cluster_metrics",
                 DictOf(<<(<<"cpu_usage", IntValue(cpu)>>),
                          <<"memory_usage", IntValue(mem)>>,
                          <<"storage_usage", IntValue(52)>>,
                          <<"network_io", IntValue(70)>>>>)>>),
              <<"active_anomalies", IntValue(1)>>, <<"timestamp", ts>>>>) :
        cpu \in {60, 90, 96}, mem \in {88, 95},
        ts \in {Absent, StrValue(IsoTime(StartMinute))}}

\* the store before the runs: new, or holding the cpu_spike alert of an analysis
\* made five minutes before the start
StartStores ==
    {[alerts |-> <<>>, index |-> EmptyDict, seq |-> 0],
     LET r == upsert_alert(<<>>, EmptyDict, 0, StartMinute - 5,
                  BuiltAlert("cpu_spike", "critical", "Anomaly detected: cpu_spike",
                             "CPU exceeded 85% threshold", ClusterEntity, "demo",
                             "None", [confidence |-> "0.95"], StartMinute - 5))
     IN [alerts |-> r.alerts, index |-> r.index, seq |-> r.seq]}

InitPipeline ==
    /\ clock = StartMinute
    /\ issued = <<>>
    /\ ops = 0
    /\ streak = EmptyDict
    /\ last = NoCall
    /\ InitAuditStore
    /\ probe = NoCall
    /\ tasks = <<>>
    /\ running = 0
    /\ \E start \in StartStores :
          /\ alerts = start.alerts
          /\ fingerprint_index = start.index
          /\ sequence = start.seq
          /\ calc \in {[op |-> "run_ai_analysis", metrics_payload |-> payload,
                         history_payload |-> history, mode |-> "demo", start |-> start,
                         runs |-> <<>>] :
                           payload \in MetricsPayloads, history \in HistoryPayloads}

\* one run of run_ai_analysis on ALERT_STORE as it was at the start: the caller has
\* put the store back into that state, as the determinism test does for its own
\* starting state with clear_all
RunAiAnalysis(elapsed_ms) ==
    /\ calc.op = "run_ai_analysis"
    /\ Len(calc.runs) < MaxRuns
    /\ \E r \in {run_ai_analysis(calc.metrics_payload, calc.mode, calc.history_payload,
                                  calc.start.alerts, calc.start.index, calc.start.seq,
                                  clock, elapsed_ms)} :
          /\ alerts' = r.alerts
          /\ fingerprint_index' = r.index
          /\ sequence' = r.seq
          /\ issued' = r.issued
          /\ calc' = [calc EXCEPT !.runs = Append(@, [now |-> clock] @@ r)]
    /\ UNCHANGED <<clock, ops, streak, last, probe, tasks, running, auditVars>>

\* time passes between two runs
Wait ==
    /\ calc.op = "run_ai_analysis"
    /\ clock + WaitMinutes <= StartMinute + WaitMinutes * (MaxRuns - 1)
    /\ clock' = clock + WaitMinutes
    /\ UNCHANGED <<alerts, fingerprint_index, sequence, issued, ops, streak, last,
                   otherVars>>

NextPipeline == (\E elapsed_ms \in {3, 4} : RunAiAnalysis(elapsed_ms)) \/ Wait

SpecPipeline == InitPipeline /\ [][NextPipeline]_vars

Analysed == calc.op = "run_ai_analysis"

\* the runs that returned
Returned == {i \in DOMAIN calc.runs : calc.runs[i].raised = ""}

\* the output of a run without the two fields that are set aside
Comparable(run) ==
    [run.out EXCEPT !.ai_meta.analysis_time_ms = 0, !.alerts_summary.updated_at = <<>>]

\* C23, as stated: two runs of run_ai_analysis on the same metrics payload, history
\* payload and mode, each started from the same AlertStore state, return outputs
\* that are equal in every field except ai_meta.analysis_time_ms and
\* alerts_summary.updated_at.
C23_RunsDifferOnlyInTimeFields ==
    Analysed =>
        \A i, j \in Returned : Comparable(calc.runs[i]) = Comparable(calc.runs[j])

HasTimestamp(payload) ==
    LET ts == Get(payload, "timestamp")
    IN ts.kind = "str" /\ IsIsoTime(ts.text)

\* the payloads leave no time to be read from the wall clock
Timestamped ==
    /\ HasTimestamp(calc.metrics_payload)
    /\ \A k \in DOMAIN calc.history_payload : HasTimestamp(calc.history_payload[k])

\* no alert of the starting store is within the dedupe window at one time and
\* outside of it at the other
SameWindows(now1, now2) ==
    \A k \in DOMAIN calc.start.alerts :
        WithinWindow(now1, calc.start.alerts[k]) = WithinWindow(now2, calc.start.alerts[k])

\* C23, amended: the two outputs are equal in every field except
\* ai_meta.analysis_time_ms and alerts_summary.updated_at provided that the metrics
\* payload and every point of the history payload carry a parsable timestamp and
\* that no alert of the starting store is within the dedupe window for one run and
\* outside of it for the other.
C23_RunsOnTimestampedInputAgree ==
    Analysed =>
        \A i, j \in Returned :
            (Timestamped /\ SameWindows(calc.runs[i].now, calc.runs[j].now))
                => Comparable(calc.runs[i]) = Comparable(calc.runs[j])

\* two runs a quarter of an hour apart on a timestamped payload with a timestamped
\* history, which took different times and agree
C23_Witness ==
    /\ Analysed
    /\ Len(calc.runs) = 2
    /\ Returned = {1, 2}
    /\ Timestamped
    /\ Len(calc.history_payload) = 3
    /\ calc.runs[1].now # calc.runs[2].now
    /\ SameWindows(calc.runs[1].now, calc.runs[2].now)
    /\ calc.runs[1].out.ai_meta.analysis_time_ms
         # calc.runs[2].out.ai_meta.analysis_time_ms
    /\ calc.runs[1].out.alerts_summary.updated_at
         # calc.runs[2].out.alerts_summary.updated_at
    /\ Comparable(calc.runs[1]) = Comparable(calc.runs[2])

\* the supplied history as _build_history normalizes it
Supplied(run) ==
    _build_history(extract_features(calc.metrics_payload, NoneValue, -1, run.now),
                   calc.history_payload, run.now)

\* C26: in run_ai_analysis with a non-empty supplied history, the anomaly detector
\* receives the whole supplied history, so the prior CPU used for the cpu_spike
\* delta is the CPU of the last supplied history element, and the forecast's input
\* sequence ends with the current point.
C26_DetectorSeesTheWholeHistory ==
    (Analysed /\ calc.history_payload # <<>>) =>
        \A i \in Returned :
            LET run == calc.runs[i]
                n == Len(calc.history_payload)
                current == extract_features(calc.metrics_payload, NoneValue, -1,
                                            run.now)
            IN /\ run.detector_history = Supplied(run)
               /\ run.detector_history # <<>>
               /\ run.detector_history[Len(run.detector_history)].cpu_usage
                    = _to_float(Get(calc.history_payload[n], "cpu_usage"),
                                FloatValue(0))
               /\ run.forecast_input[Len(run.forecast_input)] = current

PipelineAlertTypes ==
    {"cpu_spike", "memory_pressure", "network_spike", "sla_risk", "forecast_risk"}

\* the alerts of the store that the starting store did not hold
Added(run) ==
    {run.alerts[k] : k \in {k \in DOMAIN run.alerts :
                              run.alerts[k].id \notin AlertIds(calc.start.alerts)}}

\* C29: no run of the pipeline creates a critical_security_recommendation alert or
\* adds the critical-recommendation adjustment to the risk score, because no
\* recommendation is of critical priority; the only alert types a run adds to the
\* store are cpu_spike, memory_pressure, network_spike, sla_risk and forecast_risk.
C29_NoCriticalRecommendationInThePipeline ==
    Analysed =>
        \A i \in Returned :
            LET run == calc.runs[i]
            IN /\ \A k \in DOMAIN run.out.recommendations :
                     run.out.recommendations[k].priority # "critical"
               /\ \A k \in DOMAIN run.upserted :
                     run.upserted[k].type \in PipelineAlertTypes
               /\ \A alert \in Added(run) : alert.type \in PipelineAlertTypes
               /\ \A k \in DOMAIN run.out.sla_risk.drivers :
                     run.out.sla_risk.drivers[k] # "Critical recommendations generated"
               /\ run.out.sla_risk.risk_score
                    = compute_sla_risk(
                          View(extract_features(calc.metrics_payload, NoneValue, -1,
                                                run.now)),
                          run.out.anomalies, run.out.forecast, <<>>,
                          run.now).risk_score

\* a run on a new store that added one alert of each of the five types
C29_Witness ==
    /\ Analysed
    /\ \E i \in Returned :
          /\ calc.start.alerts = <<>>
          /\ {alert.type : alert \in Added(calc.runs[i])} = PipelineAlertTypes
          /\ calc.runs[i].out.recommendations # <<>>

\* ------------------------------------------------------------ the index and the records
\* every entry of the fingerprint index names a stored alert of that fingerprint
EntriesNameTheirAlerts(s, index) ==
    \A fp \in DOMAIN index :
        /\ index[fp] \in AlertIds(s)
        /\ AlertAt(s, index[fp]).fingerprint = fp

\* every stored alert is the one the entry of its fingerprint names
AlertsAreNamed(s, index) ==
    \A i \in DOMAIN s :
        /\ s[i].fingerprint \in DOMAIN index
        /\ index[s[i].fingerprint] = s[i].id

\* C27: in every reachable state of the AlertStore, whatever the upserts (with an
\* empty or a caller-supplied id), acknowledgements, resolutions and clearings
\* before it, each entry of the fingerprint index names a stored alert of that
\* fingerprint, and every stored alert is the one the entry of its fingerprint names.
C27_IndexAndRecordsAgree ==
    /\ EntriesNameTheirAlerts(alerts, fingerprint_index)
    /\ AlertsAreNamed(alerts, fingerprint_index)

\* ------------------------------------------------------------ what a merge changes
\* the fields of an Alert that a merge has no business with
KeptFields == {"id", "type", "severity", "status", "title", "source", "created_at",
               "fingerprint", "entity", "explanation"}

\* the meta after a merge: the two keys of the merge set, every other key as it was
MetaAfterMerge(before, after, message) ==
    /\ DOMAIN after = DOMAIN before \cup {"occurrences", "last_message"}
    /\ after["occurrences"] = DictGet(before, "occurrences", 1) + 1
    /\ after["last_message"] = message
    /\ \A k \in DOMAIN before \ {"occurrences", "last_message"} : after[k] = before[k]

\* C28: an upsert that merges changes, of the record it merges into, the message,
\* updated_at and the meta keys occurrences and last_message only: id, status,
\* severity, title, created_at, entity and explanation stay as they were (an
\* acknowledged or resolved alert that triggers again is not returned to active),
\* the meta of the incoming alert is not merged in, and no other record, index
\* entry or id is touched.
C28_MergeChangesThreeFields ==
    [][IsCall("upsert") /\ last'.merged =>
         LET alert == last'.alert
             existing == CHOOSE e \in Existing(alerts, fingerprint_index, alert.fingerprint) : TRUE
             after == AlertAt(alerts', existing.id)
         IN /\ \A f \in KeptFields : after[f] = existing[f]
            /\ after.message = alert.message
            /\ after.updated_at = IsoFormat(clock)
            /\ MetaAfterMerge(existing.meta, after.meta, alert.message)
            /\ last'.ret = after
            /\ Len(alerts') = Len(alerts)
            /\ \A i \in DOMAIN alerts : alerts[i].id # existing.id => alerts'[i] = alerts[i]
            /\ fingerprint_index' = fingerprint_index
            /\ sequence' = sequence]_vars

\* an acknowledged alert triggered again by an active alert that brings a message
\* of its own: the record is still acknowledged and keeps who acknowledged it
C28_Witness ==
    /\ last.op = "upsert"
    /\ last.merged
    /\ last.alert.status = "active"
    /\ last.ret.status = "acknowledged"
    /\ "ack_by" \in DOMAIN last.ret.meta
    /\ last.ret.meta["occurrences"] = 2

\* ------------------------------------------------------------ two audit stores
\* Two AuditStores of the same size live side by side. What the watched actor, who
\* is no admin, appends goes to both; what anybody else appends goes to one of them.
\* The watched actor reads both through list_events, page by page, following in
\* each store the cursor that store gave. calc holds the two stores, whether one
\* of them has dropped an event, and the pages read.
PageLimits == {1, 600}

Sides == {"left", "right"}

Watched == {actor \in ListingActors : actor.role # "admin"}

NewStore == [events |-> <<>>, seq |-> 0, dropped |-> FALSE]

\* store.append(event) on one of the two stores
Appended(store, size, event) ==
    LET r == append(store.events, store.seq, size, event)
    IN [events  |-> r.events,
        seq     |-> r.seq,
        dropped |-> store.dropped \/ Len(store.events) + 1 > size]

InitTwoStores ==
    /\ InitIdle
    /\ calc \in {[op |-> "two_stores", actor |-> actor, size |-> size, appends |-> 0,
                  left |-> NewStore, right |-> NewStore, pages |-> <<>>] :
                    actor \in Watched, size \in AuditSizes}

\* the watched actor appends: both stores get the event
AppendOwn(event) ==
    /\ calc.op = "two_stores"
    /\ calc.appends < MaxAppends
    /\ event.actor_email = calc.actor.email
    /\ calc' = [calc EXCEPT !.appends = @ + 1,
                            !.left = Appended(@, calc.size, event),
                            !.right = Appended(@, calc.size, event)]
    /\ UNCHANGED idleVars

\* somebody else appends: one store gets the event
AppendOther(event, side) ==
    /\ calc.op = "two_stores"
    /\ calc.appends < MaxAppends
    /\ event.actor_email # calc.actor.email
    /\ calc' = [calc EXCEPT !.appends = @ + 1,
                            ![side] = Appended(@, calc.size, event)]
    /\ UNCHANGED idleVars

\* the cursor the next call passes to a store: none for the first page
CursorOf(side) ==
    IF calc.pages = <<>> THEN "" ELSE calc.pages[Len(calc.pages)][side].next_cursor

\* the watched actor asks both stores for a page
ListBoth(limit) ==
    /\ calc.op = "two_stores"
    /\ Len(calc.pages) < MaxPages
    /\ calc.pages # <<>> => \A side \in Sides : CursorOf(side) # ""
    /\ calc' = [calc EXCEPT !.pages = Append(@,
                   [left  |-> list_events(calc.left.events, calc.actor, limit,
                                          CursorOf("left")),
                    right |-> list_events(calc.right.events, calc.actor, limit,
                                          CursorOf("right")),
                    nothing_dropped |-> ~calc.left.dropped /\ ~calc.right.dropped])]
    /\ UNCHANGED idleVars

NextTwoStores ==
    \/ \E event \in InputEvents : AppendOwn(event)
    \/ \E event \in InputEvents, side \in Sides : AppendOther(event, side)
    \/ \E limit \in PageLimits : ListBoth(limit)

SpecTwoStores == InitTwoStores /\ [][NextTwoStores]_vars

PagesRead == IF calc.op = "two_stores" THEN calc.pages ELSE <<>>

\* an event without the id the store gave it
WithoutId(event) == [k \in DOMAIN event \ {"id"} |-> event[k]]

\* two listings that show the same events in the same order and both end, or both
\* go on after the same position, whatever ids the stores gave
SameButIds(a, b) ==
    /\ Len(a.page) = Len(b.page)
    /\ \A i \in DOMAIN a.page : WithoutId(a.page[i]) = WithoutId(b.page[i])
    /\ (a.next_cursor = "") = (b.next_cursor = "")

\* C30 as stated: what a non-admin actor sees through list_events does not depend
\* on the activity of other actors: in two stores that got the same appends of that
\* actor and differ in the appends of others only, the actor's listing is the same.
C30_ListingIgnoresOtherActors ==
    \A k \in DOMAIN PagesRead : PagesRead[k].left = PagesRead[k].right

\* C30, amended: as long as neither store has dropped an event, the two listings
\* show the same events in the same order and end or go on at the same position;
\* the ids of the events, which count the appends of everybody, may differ.
C30_ListingsAgreeButForIds ==
    \A k \in DOMAIN PagesRead :
        PagesRead[k].nothing_dropped => SameButIds(PagesRead[k].left, PagesRead[k].right)

\* a second page read from two stores that others have filled differently: the
\* pages agree although the ids on them do not
C30_Witness ==
    /\ Len(PagesRead) = 2
    /\ PagesRead[2].nothing_dropped
    /\ PagesRead[2].left.page # <<>>
    /\ PagesRead[2].left.page # PagesRead[2].right.page
    /\ Len(calc.left.events) # Len(calc.right.events)

====
